---- MODULE Spec2Model ----
(***************************************************************************)
(* Model of granite-coder's GreedyAgent (src/granite-coder/src/agent.py):  *)
(* the path sanitizer, the four filesystem tools, the tool dispatcher, the *)
(* response processor and the choice of mode; of its command-line chat     *)
(* loop and its MCP server; and of dspy-liquid-agent's InvoiceAgent and    *)
(* the loop over uploaded files in its Streamlit front end.                *)
(*                                                                         *)
(* Strings are sequences of tokens.  A path is spelled character by        *)
(* character (every token is one character), so that str.startswith,       *)
(* os.path.join and os.path.normpath are computed on the characters as     *)
(* Python computes them.  Fixed message texts are single tokens.           *)
(***************************************************************************)
EXTENDS Integers, Sequences, FiniteSets, TLC

(***************************************************************************)
(* Bounds of the model.                                                    *)
(***************************************************************************)
\* longest path argument drawn for the sanitizer, in characters
MaxPathLen == 5
\* longest sandbox root drawn for the sanitizer, in characters
MaxRootLen == 2
\* most items in one response payload
MaxItems == 2
\* longest response payload drawn for the write-then-read round trips, in items
MaxRoundTripItems == 3
\* most inputs the chat loop is given
MaxInputs == 2
\* most requests the MCP server is sent
MaxRequests == 3
\* most invoice images in one batch
MaxInvoices == 2
\* most files uploaded for one processing run
MaxUploads == 2

(***************************************************************************)
(* Strings.                                                                *)
(***************************************************************************)
Slash == "/"
Dot == <<".">>
DotDot == <<".", ".">>

\* str.startswith
StartsWith(s, prefix) ==
    /\ Len(prefix) <= Len(s)
    /\ SubSeq(s, 1, Len(prefix)) = prefix

\* str.endswith, for a one-character suffix
EndsWithChar(s, c) == s # <<>> /\ s[Len(s)] = c

\* str.split(sep) for a one-character separator: the pieces between separators
RECURSIVE SplitFrom(_, _, _, _)
SplitFrom(s, sep, i, cur) ==
    IF i > Len(s) THEN <<cur>>
    ELSE IF s[i] = sep THEN <<cur>> \o SplitFrom(s, sep, i + 1, <<>>)
    ELSE SplitFrom(s, sep, i + 1, Append(cur, s[i]))

Split(s, sep) == SplitFrom(s, sep, 1, <<>>)

\* sep.join(parts)
RECURSIVE Join(_, _)
Join(parts, sep) ==
    IF parts = <<>> THEN <<>>
    ELSE IF Len(parts) = 1 THEN parts[1]
    ELSE parts[1] \o sep \o Join(Tail(parts), sep)

\* all sequences over S of length at most n
RECURSIVE SeqsUpTo(_, _)
SeqsUpTo(S, n) ==
    IF n = 0 THEN {<<>>}
    ELSE LET shorter == SeqsUpTo(S, n - 1)
         IN  shorter \cup {Append(s, c) : s \in shorter, c \in S}

(***************************************************************************)
(* os.path on POSIX, as _sanitize_path uses it.                            *)
(***************************************************************************)
\* os.getcwd(): the process's working directory
Cwd == <<"/", "a">>

\* os.path.isabs
isabs(path) == StartsWith(path, <<Slash>>)

\* os.path.join(a, p)
join(a, p) ==
    IF isabs(p) THEN p
    ELSE IF a = <<>> \/ EndsWithChar(a, Slash) THEN a \o p
    ELSE a \o <<Slash>> \o p

\* the number of leading slashes os.path.normpath keeps: 0, 1, or 2 for exactly two
InitialSlashes(path) ==
    IF ~StartsWith(path, <<Slash>>) THEN 0
    ELSE IF StartsWith(path, <<Slash, Slash>>) /\ ~StartsWith(path, <<Slash, Slash, Slash>>)
         THEN 2
    ELSE 1

\* the loop of os.path.normpath over the split components
RECURSIVE NormComps(_, _, _)
NormComps(comps, new, initial) ==
    IF comps = <<>> THEN new
    ELSE LET comp == Head(comps)
             rest == Tail(comps)
         IN  IF comp = <<>> \/ comp = Dot THEN NormComps(rest, new, initial)
             ELSE IF \/ comp # DotDot
                     \/ (initial = 0 /\ new = <<>>)
                     \/ (new # <<>> /\ new[Len(new)] = DotDot)
                  THEN NormComps(rest, Append(new, comp), initial)
             ELSE IF new # <<>>
                  THEN NormComps(rest, SubSeq(new, 1, Len(new) - 1), initial)
             ELSE NormComps(rest, new, initial)

\* os.path.normpath
normpath(path) ==
    IF path = <<>> THEN Dot
    ELSE LET initial == InitialSlashes(path)
             comps   == NormComps(Split(path, Slash), <<>>, initial)
             body    == Join(comps, <<Slash>>)
             lead    == [i \in 1..initial |-> Slash]
             out     == lead \o body
         IN  IF out = <<>> THEN Dot ELSE out

\* os.path.abspath
abspath(path) ==
    IF isabs(path) THEN normpath(path) ELSE normpath(join(Cwd, path))

\* os.path.dirname
RECURSIVE LastSlash(_, _)
LastSlash(path, i) ==
    IF i = 0 THEN 0
    ELSE IF path[i] = Slash THEN i
    ELSE LastSlash(path, i - 1)

RECURSIVE RStripSlashes(_)
RStripSlashes(s) ==
    IF s # <<>> /\ s[Len(s)] = Slash THEN RStripSlashes(SubSeq(s, 1, Len(s) - 1)) ELSE s

dirname(path) ==
    LET i    == LastSlash(path, Len(path))
        head == SubSeq(path, 1, i)
    IN  IF head # <<>> /\ head # [k \in 1..Len(head) |-> Slash]
        THEN RStripSlashes(head)
        ELSE head

\* os.path.basename
basename(path) == SubSeq(path, LastSlash(path, Len(path)) + 1, Len(path))

(***************************************************************************)
(* Values.  A tool argument is a JSON value: a string, a number, a list    *)
(* or an object (a mapping from keys to JSON values).  A call either       *)
(* returns a value or raises an exception with a message.                  *)
(***************************************************************************)
JStr(s) == [t |-> "str", s |-> s]
JNum == [t |-> "num", s |-> <<>>]
JList == [t |-> "list", s |-> <<>>]
\* a key the object does not hold
JAbsent == [t |-> "absent", s |-> <<>>]
\* an object with the keys the tools read; a key it lacks is JAbsent
JObj(path, content, pattern) ==
    [t |-> "obj", s |-> <<>>, m |-> [path |-> path, content |-> content, pattern |-> pattern]]

Returned(v) == [raised |-> FALSE, value |-> v]
Raised(exc, msg) == [raised |-> TRUE, exc |-> exc, msg |-> msg]

\* the message of the TypeError os.path.join and f.write raise for a non-string
NotStrMessage == <<"expected str, not a value of another type">>

(***************************************************************************)
(* GreedyAgent._sanitize_path.                                             *)
(***************************************************************************)
\* the containment test with its operands swapped: abs_base.startswith(abs_path)
PathAllowed_Swapped(abs_path, abs_base) == StartsWith(abs_base, abs_path)

\* the containment test of _sanitize_path: abs_path.startswith(abs_base)
PathAllowed(abs_path, abs_base) == StartsWith(abs_path, abs_base)

\* a sanitizer whose error names the resolved path instead of the one it was given
_sanitize_path_ReportsResolved(path, base_path) ==
    IF path.t # "str" THEN Raised("TypeError", NotStrMessage)
    ELSE IF ~PathAllowed(abspath(join(base_path, path.s)), abspath(base_path))
         THEN Raised("ValueError",
                     <<"Path '">> \o abspath(join(base_path, path.s))
                         \o <<"' is outside allowed directory">>)
         ELSE Returned(abspath(join(base_path, path.s)))

_sanitize_path(path, base_path) ==
    IF path.t # "str" THEN Raised("TypeError", NotStrMessage)
    ELSE LET abs_base == abspath(base_path)
             abs_path == abspath(join(base_path, path.s))
         IN  IF ~PathAllowed(abs_path, abs_base)
             THEN Raised("ValueError",
                         <<"Path '">> \o path.s \o <<"' is outside allowed directory">>)
             ELSE Returned(abs_path)

(***************************************************************************)
(* The filesystem: a function from the absolute normalized paths that      *)
(* exist to their nodes.  "/" always exists, and the parent of every       *)
(* entry exists and is a directory.  There are no symbolic links.          *)
(***************************************************************************)
DirNode(w) == [kind |-> "dir", content |-> <<>>, writable |-> w]
FileNode(c, w) == [kind |-> "file", content |-> c, writable |-> w]

RootDir == <<Slash>>

exists(fs, p) == p \in DOMAIN fs
isdirNode(fs, p) == p \in DOMAIN fs /\ fs[p].kind = "dir"
isfileNode(fs, p) == p \in DOMAIN fs /\ fs[p].kind = "file"

\* the proper ancestors of a normalized absolute path, and the path itself
RECURSIVE AncestorsOrSelf(_)
AncestorsOrSelf(p) ==
    IF p = RootDir \/ dirname(p) = p THEN {p}
    ELSE {p} \cup AncestorsOrSelf(dirname(p))

Ancestors(p) == AncestorsOrSelf(p) \ {p}

\* the names of the direct entries of directory p
EntryNames(fs, p) == {basename(q) : q \in {x \in DOMAIN fs : x # p /\ dirname(x) = p}}

\* the kernel's path walk for an absolute path that may hold "." and "..":
\* the normalized path of the entry it names, or <<>> when there is none
RECURSIVE Walk(_, _, _)
Walk(fs, cur, comps) ==
    IF comps = <<>> THEN cur
    ELSE IF ~isdirNode(fs, cur) THEN <<>>
    ELSE LET comp == Head(comps)
             rest == Tail(comps)
         IN  IF comp = <<>> \/ comp = Dot THEN Walk(fs, cur, rest)
             ELSE IF comp = DotDot THEN Walk(fs, dirname(cur), rest)
             ELSE LET nxt == join(cur, comp)
                  IN  IF exists(fs, nxt) THEN Walk(fs, nxt, rest) ELSE <<>>

Lookup(fs, path) == Walk(fs, RootDir, Split(path, Slash))

\* os.path.lexists and os.path.isdir
lexists(fs, path) == Lookup(fs, path) # <<>>
isdir(fs, path) == Lookup(fs, path) # <<>> /\ fs[Lookup(fs, path)].kind = "dir"

OSErrorMessage(text, p) == <<text>> \o p \o <<"'">>
FileNotFound(p) == Raised("FileNotFoundError", OSErrorMessage("[Errno 2] No such file or directory: '", p))
NotADirectory(p) == Raised("NotADirectoryError", OSErrorMessage("[Errno 20] Not a directory: '", p))
IsADirectory(p) == Raised("IsADirectoryError", OSErrorMessage("[Errno 21] Is a directory: '", p))
PermissionDenied(p) == Raised("PermissionError", OSErrorMessage("[Errno 13] Permission denied: '", p))
FileExists(p) == Raised("FileExistsError", OSErrorMessage("[Errno 17] File exists: '", p))

\* why a normalized absolute path that does not exist cannot be opened
Missing(fs, p) ==
    IF \E q \in Ancestors(p) : isfileNode(fs, q) THEN NotADirectory(p) ELSE FileNotFound(p)

\* a read that yields the empty text for what is not a regular file
open_read_Lenient(fs, p) ==
    IF ~exists(fs, p) \/ fs[p].kind = "dir" THEN Returned(<<>>) ELSE Returned(fs[p].content)

\* open(p, "r") and f.read(): the outcome
open_read(fs, p) ==
    IF ~exists(fs, p) THEN Missing(fs, p)
    ELSE IF fs[p].kind = "dir" THEN IsADirectory(p)
    ELSE Returned(fs[p].content)

\* a makedirs that creates nothing
makedirs_Nothing(fs, d) == [out |-> Returned(<<>>), fs |-> fs]

\* os.makedirs(d, exist_ok=True): the outcome and the filesystem after it
makedirs(fs, d) ==
    IF exists(fs, d)
    THEN [out |-> IF fs[d].kind = "dir" THEN Returned(<<>>) ELSE FileExists(d), fs |-> fs]
    ELSE LET missing == {q \in AncestorsOrSelf(d) : ~exists(fs, q)}
             present == {q \in AncestorsOrSelf(d) : exists(fs, q)}
             deepest == CHOOSE q \in present : \A r \in present : Len(r) <= Len(q)
             first   == CHOOSE q \in missing : \A r \in missing : Len(q) <= Len(r)
         IN  IF fs[deepest].kind = "file" THEN [out |-> NotADirectory(first), fs |-> fs]
             ELSE IF ~fs[deepest].writable THEN [out |-> PermissionDenied(first), fs |-> fs]
             ELSE [out |-> Returned(<<>>),
                   fs  |-> [q \in DOMAIN fs \cup missing |->
                                IF q \in missing THEN DirNode(TRUE) ELSE fs[q]]]

\* open(p, "w"): the outcome and the filesystem after it (the file created empty,
\* or truncated)
open_write(fs, p) ==
    IF exists(fs, p)
    THEN IF fs[p].kind = "dir" THEN [out |-> IsADirectory(p), fs |-> fs]
         ELSE IF ~fs[p].writable THEN [out |-> PermissionDenied(p), fs |-> fs]
         ELSE [out |-> Returned(<<>>), fs |-> [fs EXCEPT ![p].content = <<>>]]
    ELSE IF ~isdirNode(fs, dirname(p)) THEN [out |-> Missing(fs, p), fs |-> fs]
    ELSE IF ~fs[dirname(p)].writable THEN [out |-> PermissionDenied(p), fs |-> fs]
    ELSE [out |-> Returned(<<>>),
          fs  |-> [q \in DOMAIN fs \cup {p} |-> IF q = p THEN FileNode(<<>>, TRUE) ELSE fs[q]]]

\* a write that leaves the opened file empty
file_write_Nothing(fs, p, content) == [out |-> Returned(<<>>), fs |-> fs]

\* f.write(content) on the file opened at p
file_write(fs, p, content) ==
    IF content.t # "str" THEN [out |-> Raised("TypeError", NotStrMessage), fs |-> fs]
    ELSE [out |-> Returned(<<>>), fs |-> [fs EXCEPT ![p].content = content.s]]

\* a listing that is empty for what is not a directory
listdir_Lenient(fs, p) ==
    IF ~isdirNode(fs, p) THEN Returned({}) ELSE Returned(EntryNames(fs, p))

\* os.listdir(p): the outcome; the names come as a set, in no order
listdir(fs, p) ==
    IF ~exists(fs, p) THEN Missing(fs, p)
    ELSE IF fs[p].kind # "dir" THEN NotADirectory(p)
    ELSE Returned(EntryNames(fs, p))

(***************************************************************************)
(* glob.glob(pathname, recursive=True) and os.path.relpath, as             *)
(* _tool_search_files uses them.  Patterns are spelled with literal        *)
(* characters and "*"; "**" is the recursive wildcard.  The matches come   *)
(* as a set: glob returns them in the order the directories are scanned.   *)
(***************************************************************************)
Star == "*"

has_magic(s) == \E i \in 1..Len(s) : s[i] = Star
_ishidden(name) == name # <<>> /\ name[1] = "."
_isrecursive(pattern) == pattern = <<Star, Star>>

\* fnmatch.fnmatch(name, pat) for patterns of literal characters and "*"
RECURSIVE fnmatch(_, _)
fnmatch(name, pat) ==
    IF pat = <<>> THEN name = <<>>
    ELSE IF pat[1] = Star
         THEN fnmatch(name, Tail(pat)) \/ (name # <<>> /\ fnmatch(Tail(name), pat))
    ELSE name # <<>> /\ name[1] = pat[1] /\ fnmatch(Tail(name), Tail(pat))

\* glob._listdir: the entry names of dirname (only directories when dironly);
\* nothing when dirname cannot be scanned
_listdir(fs, dirname_, dironly) ==
    IF ~isdir(fs, dirname_) THEN {}
    ELSE LET d == Lookup(fs, dirname_)
         IN  {n \in EntryNames(fs, d) : ~dironly \/ fs[join(d, n)].kind = "dir"}

_glob1(fs, dirname_, pattern, dironly) ==
    {n \in _listdir(fs, dirname_, dironly) :
        /\ (_ishidden(pattern) \/ ~_ishidden(n))
        /\ fnmatch(n, pattern)}

_glob0(fs, dirname_, basename_) ==
    IF basename_ # <<>>
    THEN IF lexists(fs, join(dirname_, basename_)) THEN {basename_} ELSE {}
    ELSE IF isdir(fs, dirname_) THEN {basename_} ELSE {}

RECURSIVE _rlistdir(_, _, _)
_rlistdir(fs, dirname_, dironly) ==
    LET names == {n \in _listdir(fs, dirname_, dironly) : ~_ishidden(n)}
    IN  names \cup UNION {{join(x, y) : y \in _rlistdir(fs, join(dirname_, x), dironly)} : x \in names}

_glob2(fs, dirname_, dironly) == {<<>>} \cup _rlistdir(fs, dirname_, dironly)

glob_in_dir(fs, dirname_, basename_, dironly) ==
    IF has_magic(basename_)
    THEN IF _isrecursive(basename_) THEN _glob2(fs, dirname_, dironly)
         ELSE _glob1(fs, dirname_, basename_, dironly)
    ELSE _glob0(fs, dirname_, basename_)

\* glob._iglob for an absolute pathname
RECURSIVE _iglob(_, _, _)
_iglob(fs, pathname, dironly) ==
    LET dirname_  == dirname(pathname)
        basename_ == basename(pathname)
    IN  IF ~has_magic(pathname)
        THEN IF basename_ # <<>>
             THEN IF lexists(fs, pathname) THEN {pathname} ELSE {}
             ELSE IF isdir(fs, dirname_) THEN {pathname} ELSE {}
        ELSE LET dirs == IF dirname_ # pathname /\ has_magic(dirname_)
                         THEN _iglob(fs, dirname_, TRUE)
                         ELSE {dirname_}
             IN  UNION {{join(d, name) : name \in glob_in_dir(fs, d, basename_, dironly)} : d \in dirs}

glob(fs, pathname) == _iglob(fs, pathname, FALSE)

\* the non-empty components of a normalized path
Components(path) == SelectSeq(Split(path, Slash), LAMBDA c : c # <<>>)

\* the length of the longest common prefix of two sequences
RECURSIVE CommonLen(_, _)
CommonLen(a, b) ==
    IF a = <<>> \/ b = <<>> \/ Head(a) # Head(b) THEN 0
    ELSE 1 + CommonLen(Tail(a), Tail(b))

\* os.path.relpath(path, start)
relpath(path, start) ==
    LET start_list == Components(abspath(start))
        path_list  == Components(abspath(path))
        i          == CommonLen(start_list, path_list)
        rel_list   == [k \in 1..(Len(start_list) - i) |-> DotDot]
                      \o SubSeq(path_list, i + 1, Len(path_list))
    IN  IF rel_list = <<>> THEN Dot ELSE Join(rel_list, <<Slash>>)

(***************************************************************************)
(* The four tools.  Each yields its outcome (the returned text or the      *)
(* exception raised), the filesystem after it, and the trace of the        *)
(* sanitizer verdict and the filesystem operations it performed, in order. *)
(***************************************************************************)
Ev(op, path) == [op |-> op, path |-> path]
ToolOutcome(out, fs, trace) == [out |-> out, fs |-> fs, trace |-> trace]

\* the trace entry of a _sanitize_path call
SanitizeEv(san) == IF san.raised THEN Ev("sanitize_raised", <<>>) ELSE Ev("sanitize_ok", san.value)

\* _tool_read_file once the sanitizer has given its verdict san
ReadSanitized(fs, san) ==
    IF san.raised THEN ToolOutcome(san, fs, <<SanitizeEv(san)>>)
    ELSE ToolOutcome(open_read(fs, san.value), fs,
                     <<SanitizeEv(san), Ev("open_r", san.value)>>)

\* a read whose path check follows the filesystem: a target that does not exist
\* is refused
_tool_read_file_ChecksTarget(fs, path, base_path) ==
    IF path.t = "str" /\ ~exists(fs, abspath(join(base_path, path.s)))
    THEN ToolOutcome(Raised("ValueError", <<"no such path">>), fs,
                     <<Ev("sanitize_raised", <<>>)>>)
    ELSE ReadSanitized(fs, _sanitize_path(path, base_path))

_tool_read_file(fs, path, base_path) ==
    ReadSanitized(fs, _sanitize_path(path, base_path))

\* _tool_write_file after f.write(content), whose outcome is wr
WriteWritten(path, wr, trace) ==
    IF wr.out.raised THEN ToolOutcome(wr.out, wr.fs, trace)
    ELSE ToolOutcome(Returned(<<"Successfully wrote to ">> \o path.s), wr.fs, trace)

\* _tool_write_file after open(safe_path, "w"), whose outcome is op
WriteOpened(path, content, safe_path, op, trace) ==
    IF op.out.raised THEN ToolOutcome(op.out, op.fs, trace)
    ELSE WriteWritten(path, file_write(op.fs, safe_path, content),
                      Append(trace, Ev("write", safe_path)))

\* _tool_write_file after os.makedirs, whose outcome is md
WriteMade(path, content, safe_path, md, trace) ==
    IF md.out.raised THEN ToolOutcome(md.out, md.fs, trace)
    ELSE WriteOpened(path, content, safe_path, open_write(md.fs, safe_path),
                     Append(trace, Ev("open_w", safe_path)))

\* _tool_write_file once the sanitizer has given its verdict san
WriteSanitized(fs, path, content, san) ==
    IF san.raised THEN ToolOutcome(san, fs, <<SanitizeEv(san)>>)
    ELSE IF dirname(san.value) # <<>>
         THEN WriteMade(path, content, san.value, makedirs(fs, dirname(san.value)),
                        <<SanitizeEv(san), Ev("makedirs", dirname(san.value))>>)
    ELSE WriteOpened(path, content, san.value, open_write(fs, san.value),
                     <<SanitizeEv(san), Ev("open_w", san.value)>>)

\* _tool_write_file creating the parent directories before it asks the sanitizer
_tool_write_file_MakedirsFirst(fs, path, content, base_path) ==
    IF path.t = "str" /\ _sanitize_path(path, base_path).raised
    THEN ToolOutcome(_sanitize_path(path, base_path),
                     makedirs(fs, dirname(abspath(join(base_path, path.s)))).fs,
                     <<Ev("makedirs", dirname(abspath(join(base_path, path.s)))),
                       SanitizeEv(_sanitize_path(path, base_path))>>)
    ELSE WriteSanitized(fs, path, content, _sanitize_path(path, base_path))

_tool_write_file(fs, path, content, base_path) ==
    WriteSanitized(fs, path, content, _sanitize_path(path, base_path))

\* _tool_list_dir after os.listdir, whose outcome is ls
ListListed(fs, ls, order, trace) ==
    IF ls.raised THEN ToolOutcome(ls, fs, trace)
    ELSE ToolOutcome(Returned(Join(order, <<"\n">>)), fs, trace)

\* _tool_list_dir once the sanitizer has given its verdict san
ListSanitized(fs, san, order) ==
    IF san.raised THEN ToolOutcome(san, fs, <<SanitizeEv(san)>>)
    ELSE ListListed(fs, listdir(fs, san.value), order,
                    <<SanitizeEv(san), Ev("listdir", san.value)>>)

\* order is the order in which os.listdir enumerated the entries
_tool_list_dir(fs, path, base_path, order) ==
    ListSanitized(fs, _sanitize_path(path, base_path), order)

\* _tool_search_files once the sanitizer has given its verdict san
SearchSanitized(fs, pattern, san, order) ==
    IF san.raised THEN ToolOutcome(san, fs, <<SanitizeEv(san)>>)
    ELSE IF pattern.t # "str"
         THEN ToolOutcome(Raised("TypeError", NotStrMessage), fs, <<SanitizeEv(san)>>)
    ELSE ToolOutcome(
             Returned(Join([k \in 1..Len(order) |-> relpath(order[k], san.value)],
                           <<"\n">>)),
             fs, <<SanitizeEv(san), Ev("glob", join(san.value, pattern.s))>>)

\* order is the order in which glob produced the matches
_tool_search_files(fs, pattern, path, base_path, order) ==
    SearchSanitized(fs, pattern, _sanitize_path(path, base_path), order)

\* the orders in which the members of a finite set can be enumerated
RECURSIVE Orderings(_)
Orderings(S) ==
    IF S = {} THEN {<<>>}
    ELSE UNION {{<<x>> \o o : o \in Orderings(S \ {x})} : x \in S}

\* the enumeration orders os.listdir can produce at the path the sanitizer gave
ListOrdersAt(ls) == IF ls.raised THEN {<<>>} ELSE Orderings(ls.value)

ListOrdersSanitized(fs, san) ==
    IF san.raised THEN {<<>>} ELSE ListOrdersAt(listdir(fs, san.value))

ListOrders(fs, path, base_path) == ListOrdersSanitized(fs, _sanitize_path(path, base_path))

\* the orders in which glob can produce the matches of a search_files call
GlobOrdersSanitized(fs, pattern, san) ==
    IF san.raised \/ pattern.t # "str" THEN {<<>>}
    ELSE Orderings(glob(fs, join(san.value, pattern.s)))

GlobOrders(fs, pattern, path, base_path) ==
    GlobOrdersSanitized(fs, pattern, _sanitize_path(path, base_path))

(***************************************************************************)
(* GreedyAgent._execute_tool.                                              *)
(***************************************************************************)
\* args.get(key): a key the mapping lacks yields a value that is no string
ArgsGet_NoDefault(args, key) ==
    IF args.t # "obj"
    THEN Raised("AttributeError", <<"object has no attribute 'get'">>)
    ELSE Returned(IF args.m[key].t = "absent" THEN JNum ELSE args.m[key])

\* args.get(key, ""): raises AttributeError when args is not a mapping
ArgsGet(args, key) ==
    IF args.t # "obj"
    THEN Raised("AttributeError", <<"object has no attribute 'get'">>)
    ELSE Returned(IF args.m[key].t = "absent" THEN JStr(<<>>) ELSE args.m[key])

\* the orders in which the operating system can enumerate what a call lists
ToolOrders(fs, name, args, base_path) ==
    IF args.t # "obj" THEN {<<>>}
    ELSE IF name = "list_dir" THEN ListOrders(fs, ArgsGet(args, "path").value, base_path)
    ELSE IF name = "search_files"
         THEN GlobOrders(fs, ArgsGet(args, "pattern").value,
                         ArgsGet(args, "path").value, base_path)
    ELSE {<<>>}

\* the fall-through answer without the tool's name
UnknownTool_Unnamed(fs, name) == ToolOutcome(Returned(<<"Unknown tool">>), fs, <<>>)

\* return f"Unknown tool: {name}": the name matched no branch of the chain
UnknownTool(fs, name) == ToolOutcome(Returned(<<"Unknown tool: ", name>>), fs, <<>>)

\* the body of the try block: the if/elif chain on the tool name
DispatchTool(fs, name, args, base_path, order) ==
    IF name \in {"read_file", "write_file", "list_dir", "search_files"} /\ args.t # "obj"
    THEN ToolOutcome(ArgsGet(args, "path"), fs, <<>>)
    ELSE IF name = "read_file"
         THEN _tool_read_file(fs, ArgsGet(args, "path").value, base_path)
    ELSE IF name = "write_file"
         THEN _tool_write_file(fs, ArgsGet(args, "path").value,
                               ArgsGet(args, "content").value, base_path)
    ELSE IF name = "list_dir"
         THEN _tool_list_dir(fs, ArgsGet(args, "path").value, base_path, order)
    ELSE IF name = "search_files"
         THEN _tool_search_files(fs, ArgsGet(args, "pattern").value,
                                 ArgsGet(args, "path").value, base_path, order)
    ELSE UnknownTool(fs, name)

\* an except clause that catches OSError only
CatchException_OSErrorOnly(name, out) ==
    IF out.raised /\ out.exc \in {"FileNotFoundError", "NotADirectoryError", "IsADirectoryError",
                                  "PermissionError", "FileExistsError"}
    THEN Returned(<<"Error executing ", name, ": ">> \o out.msg)
    ELSE out

\* the except clause: an exception becomes the text "Error executing <name>: <message>"
CatchException(name, out) ==
    IF out.raised THEN Returned(<<"Error executing ", name, ": ">> \o out.msg) ELSE out

\* out is what _execute_tool itself yields; inner is what the try block yielded
ExecuteResult(name, body) ==
    [out   |-> CatchException(name, body.out),
     inner |-> body.out,
     fs    |-> body.fs,
     trace |-> body.trace]

_execute_tool(fs, name, args, base_path, order) ==
    ExecuteResult(name, DispatchTool(fs, name, args, base_path, order))

(***************************************************************************)
(* The response payload: data["output"], a list of items.                  *)
(***************************************************************************)
\* the "arguments" string of a function_call item: JSON text encoding a value, or
\* text that is not JSON
JsonText(v) == [valid |-> TRUE, value |-> v]
MalformedJson == [valid |-> FALSE, value |-> JNum]

\* json.loads
json_loads(text) ==
    IF text.valid THEN Returned(text.value)
    ELSE Raised("JSONDecodeError", <<"Expecting value: line 1 column 1 (char 0)">>)

NoContent == <<>>
\* the text item.get("arguments", "{}") yields for an item without the key
NoArguments == JsonText(JObj(JAbsent, JAbsent, JAbsent))
FunctionCall(name, arguments) ==
    [type |-> "function_call", name |-> name, arguments |-> arguments, content |-> NoContent]
Message(content) ==
    [type |-> "message", name |-> "", arguments |-> NoArguments, content |-> content]
OtherItem(type) ==
    [type |-> type, name |-> "", arguments |-> NoArguments, content |-> NoContent]
Content(type, text) == [type |-> type, text |-> text]

P_root == <<>>
P_f == <<"f">>
P_r == <<"r">>
P_d_f == <<"d", "/", "f">>
P_up_f == <<".", ".", "/", "f">>
P_up_aa_f == <<".", ".", "/", "a", "a", "/", "f">>

C_1 == <<"c1">>
C_2 == <<"c2">>

PathOnly(p) == JObj(JStr(p), JAbsent, JAbsent)
WriteArgs(p, c) == JObj(JStr(p), c, JAbsent)
SearchArgs(pat, p) == JObj(JStr(p), JAbsent, pat)

ReadItems ==
    {FunctionCall("read_file", JsonText(PathOnly(p))) :
        p \in {P_root, P_f, P_d_f, P_up_aa_f, P_up_f}}
    \cup {FunctionCall("read_file", JsonText(JObj(JNum, JAbsent, JAbsent))),
          FunctionCall("read_file", NoArguments)}

WriteItems ==
    {FunctionCall("write_file", JsonText(WriteArgs(p, JStr(C_1)))) :
        p \in {P_f, P_r, P_d_f, P_up_aa_f, P_up_f}}
    \cup {FunctionCall("write_file", JsonText(WriteArgs(P_f, JStr(C_2)))),
          FunctionCall("write_file", JsonText(WriteArgs(P_f, JNum))),
          FunctionCall("write_file", JsonText(JObj(JAbsent, JStr(C_1), JAbsent)))}

ListItems ==
    {FunctionCall("list_dir", JsonText(PathOnly(p))) : p \in {P_root, Dot, P_f, P_up_f}}
    \cup {FunctionCall("list_dir", NoArguments)}

SearchItems ==
    {FunctionCall("search_files", JsonText(SearchArgs(JStr(pat), P_root))) :
        pat \in {<<Star>>, <<".", ".", "/", Star>>, <<"/", Star>>}}
    \cup {FunctionCall("search_files", JsonText(SearchArgs(JNum, P_root)))}

BadItems ==
    {FunctionCall("delete_everything", JsonText(PathOnly(P_f))),
     FunctionCall("delete_everything", JsonText(JList)),
     FunctionCall("read_file", MalformedJson),
     FunctionCall("read_file", JsonText(JList))}

TextItems ==
    {Message(<<Content("output_text", <<"t1">>)>>),
     Message(<<Content("refusal", <<"t2">>), Content("output_text", <<"t3">>)>>),
     OtherItem("reasoning")}

Items == ReadItems \cup WriteItems \cup ListItems \cup SearchItems \cup BadItems \cup TextItems

\* the response payloads drawn: every list of at most MaxItems items
Responses == SeqsUpTo(Items, MaxItems)

\* writes and reads of a few files inside the root: f under two spellings, d/f
\* whose directory may be missing, and r which cannot be written
RoundTripItems ==
    {FunctionCall("write_file", JsonText(WriteArgs(P_f, JStr(C_1)))),
     FunctionCall("write_file", JsonText(WriteArgs(P_f, JStr(C_2)))),
     FunctionCall("write_file", JsonText(WriteArgs(<<".", "/", "f">>, JStr(C_1)))),
     FunctionCall("write_file", JsonText(WriteArgs(P_d_f, JStr(C_1)))),
     FunctionCall("write_file", JsonText(WriteArgs(P_r, JStr(C_1)))),
     FunctionCall("read_file", JsonText(PathOnly(P_f))),
     FunctionCall("read_file", JsonText(PathOnly(P_d_f))),
     FunctionCall("read_file", JsonText(PathOnly(P_r))),
     Message(<<Content("output_text", <<"t1">>)>>),
     OtherItem("reasoning")}

(***************************************************************************)
(* The filesystems a turn can start from.  The sandbox root is /a; /aa is  *)
(* a sibling directory whose name extends the root's name.                 *)
(***************************************************************************)
SandboxRoot == <<"/", "a">>

FsEmptyRoot ==
    (<<"/">> :> DirNode(TRUE))
    @@ (<<"/", "a">> :> DirNode(TRUE))
    @@ (<<"/", "a", "a">> :> DirNode(TRUE))
    @@ (<<"/", "a", "a", "/", "f">> :> FileNode(<<"secret">>, TRUE))

FsPopulated ==
    FsEmptyRoot
    @@ (<<"/", "a", "/", "f">> :> FileNode(<<"old">>, TRUE))
    @@ (<<"/", "a", "/", "r">> :> FileNode(<<"fixed">>, FALSE))

InitialFilesystems == {FsEmptyRoot, FsPopulated}

(***************************************************************************)
(* State.                                                                  *)
(***************************************************************************)
VARIABLES
    base_path,  \* the sandbox root handed to the call
    fs,         \* the filesystem
    posts,      \* _run_responses: the requests made to the model so far
    data,       \* _process_response: the items of the response payload
    idx,        \* _process_response: the position of the for loop in data
    results,    \* _process_response: the list of transcript lines
    ret,        \* _process_response: running, returned (with the text), or raised
    calls,      \* the _execute_tool calls made so far, each with what it did
    sanArg,     \* the path argument of a direct _sanitize_path call
    sanOut,     \* the outcome of that call, once made
    agent,      \* GreedyAgent: self, the fields __init__ set
    ran,        \* GreedyAgent.run: the branch it took ("" before the call) and, for
                \* the direct and rlm branches, the outcome
    chat,       \* cli.chat: the interactive loop
    server,     \* server.call_tool: the request and its outcome
    invoices,   \* InvoiceAgent.process_batch_invoices: the batch being processed
    upload      \* app.process_invoices: the loop over the uploaded files

\* the state of the programs around the agent
frontVars == <<chat, server, invoices, upload>>

vars == <<base_path, fs, posts, data, idx, results, ret, calls, sanArg, sanOut, agent, ran,
          frontVars>>

\* GreedyAgent.run took branch b; out is what _run_direct or _run_rlm yielded
Ran(b, out) == [branch |-> b, out |-> out]

\* a program that is not running
Idle == [pc |-> "idle"]

\* GreedyAgent.__init__
GreedyAgent(model_name, max_iterations, mode, base_url) ==
    [model_name |-> model_name, max_iterations |-> max_iterations, mode |-> mode,
     base_url |-> base_url]

\* the mode values an agent is built with: the three modes and one that is none of them
Modes == {"direct", "rlm", "responses", "turbo"}

\* a dispatch that takes the tool-calling path for every mode it does not know
run_UnknownIsResponses(mode) ==
    IF mode = "rlm" THEN "rlm" ELSE IF mode = "direct" THEN "direct" ELSE "responses"

\* GreedyAgent.run: the branch taken for a mode
run(mode) ==
    IF mode = "rlm" THEN "rlm" ELSE IF mode = "responses" THEN "responses" ELSE "direct"

Running == [state |-> "running", exc |-> "", value |-> <<>>]
ReturnedText(text) == [state |-> "returned", exc |-> "", value |-> text]
RaisedOut(exc) == [state |-> "raised", exc |-> exc, value |-> <<>>]
NotCalled == [called |-> FALSE, out |-> Returned(<<>>)]

(***************************************************************************)
(* GreedyAgent._run_responses: one request, whose response payload         *)
(* _process_response then handles, one step per item of the payload.       *)
(***************************************************************************)
Init ==
    /\ base_path = SandboxRoot
    /\ fs \in InitialFilesystems
    /\ posts = 0
    /\ data = <<>>
    /\ idx = 1
    /\ results = <<>>
    /\ ret = Running
    /\ calls = <<>>
    /\ sanArg = <<>>
    /\ sanOut = NotCalled
    /\ agent \in {GreedyAgent("ibm/granite4", 3, m, "http://localhost:11434") : m \in Modes}
    /\ ran = Ran("", Returned(<<>>))
    /\ chat = Idle /\ server = Idle /\ invoices = Idle /\ upload = Idle

\* the loop walking the payload from its end
NextItem_Reversed(output, i) == output[Len(output) + 1 - i]

\* for item in data.get("output", []): the item the loop handles at position i
NextItem(output, i) == output[i]

\* the line put in front of the list instead of at its end
AppendResult_InFront(lines, line) == <<line>> \o lines

\* results.append(line)
AppendResult(lines, line) == Append(lines, line)

\* f"Tool {func_name}: {result}"
ToolLine(func_name, result) == <<"Tool ", func_name, ": ">> \o result

\* the text of every entry of a message item's content, whatever its type
OutputTexts_AnyType(content) == [i \in 1..Len(content) |-> content[i].text]

\* the texts of the output_text entries of a message item's content, in order
RECURSIVE OutputTexts(_)
OutputTexts(content) ==
    IF content = <<>> THEN <<>>
    ELSE (IF Head(content).type = "output_text" THEN <<Head(content).text>> ELSE <<>>)
         \o OutputTexts(Tail(content))

RECURSIVE AppendAll(_, _)
AppendAll(lines, texts) ==
    IF texts = <<>> THEN lines
    ELSE AppendAll(AppendResult(lines, Head(texts)), Tail(texts))

\* a further request made once the payload has been handled
_run_responses_Again(payloads) ==
    /\ posts < 2
    /\ run(agent.mode) = "responses"
    /\ ret.state = "running"
    /\ idx > Len(data)
    /\ posts' = posts + 1
    /\ ran' = Ran("responses", Returned(<<>>))
    /\ data' \in payloads
    /\ idx' = 1
    /\ UNCHANGED <<agent, frontVars, base_path, fs, results, ret, calls, sanArg, sanOut>>

\* requests.post(...), data = response.json(): the one request of a run, answered
\* with one of the payloads
_run_responses(payloads) ==
    /\ ran.branch = ""
    /\ run(agent.mode) = "responses"
    /\ posts = 0
    /\ ret.state = "running"
    /\ ran' = Ran("responses", Returned(<<>>))
    /\ posts' = posts + 1
    /\ data' \in payloads
    /\ idx' = 1
    /\ UNCHANGED <<agent, frontVars, base_path, fs, results, ret, calls, sanArg, sanOut>>

\* _run_direct: one ollama.chat call, whose reply is returned; the call may raise
_run_direct ==
    /\ ran.branch = ""
    /\ run(agent.mode) = "direct"
    /\ ran' \in {Ran("direct", Returned(<<"reply">>)),
                 Ran("direct", Raised("ResponseError", <<"model not found">>))}
    /\ UNCHANGED <<agent, frontVars, base_path, fs, posts, data, idx, results, ret, calls,
                   sanArg, sanOut>>

\* _run_rlm: one RLM completion, whose response is returned; the call may raise
_run_rlm ==
    /\ ran.branch = ""
    /\ run(agent.mode) = "rlm"
    /\ ran' \in {Ran("rlm", Returned(<<"answer">>)),
                 Ran("rlm", Raised("Exception", <<"completion failed">>))}
    /\ UNCHANGED <<agent, frontVars, base_path, fs, posts, data, idx, results, ret, calls,
                   sanArg, sanOut>>

Looping == ret.state = "running" /\ posts > 0 /\ idx <= Len(data)

\* the loop body for a function_call item once _execute_tool has yielded r
RecordCall(item, args, r) ==
    /\ calls' = Append(calls,
                       [name |-> item.name, args |-> args, out |-> r.out,
                        inner |-> r.inner, trace |-> r.trace, before |-> fs,
                        after |-> r.fs, item |-> idx])
    /\ fs' = r.fs
    /\ IF r.out.raised
       THEN /\ ret' = RaisedOut(r.out.exc)
            /\ UNCHANGED <<idx, results>>
       ELSE /\ results' = AppendResult(results, ToolLine(item.name, r.out.value))
            /\ idx' = idx + 1
            /\ UNCHANGED ret

\* a dispatcher that remembers its answers: a call made before with the same name
\* and arguments gets the answer it got then
CallTool_Remembering(item, args) ==
    IF args.raised
    THEN /\ ret' = RaisedOut(args.exc)
         /\ UNCHANGED <<fs, idx, results, calls>>
    ELSE IF \E k \in 1..Len(calls) : calls[k].name = item.name /\ calls[k].args = args.value
         THEN RecordCall(item, args.value,
                         [out   |-> calls[CHOOSE k \in 1..Len(calls) :
                                             calls[k].name = item.name
                                             /\ calls[k].args = args.value].out,
                          inner |-> calls[CHOOSE k \in 1..Len(calls) :
                                             calls[k].name = item.name
                                             /\ calls[k].args = args.value].inner,
                          fs    |-> fs,
                          trace |-> <<>>])
    ELSE \E order \in ToolOrders(fs, item.name, args.value, base_path) :
             RecordCall(item, args.value,
                        _execute_tool(fs, item.name, args.value, base_path, order))

\* the loop body for a function_call item once json.loads has yielded args
CallTool(item, args) ==
    IF args.raised
    THEN /\ ret' = RaisedOut(args.exc)
         /\ UNCHANGED <<fs, idx, results, calls>>
    ELSE \E order \in ToolOrders(fs, item.name, args.value, base_path) :
             RecordCall(item, args.value,
                        _execute_tool(fs, item.name, args.value, base_path, order))

HandleFunctionCall(item) == CallTool(item, json_loads(item.arguments))

\* a function_call item: parse the arguments, execute the tool, append its line
FunctionCallItem ==
    /\ Looping
    /\ NextItem(data, idx).type = "function_call"
    /\ HandleFunctionCall(NextItem(data, idx))
    /\ UNCHANGED <<agent, ran, frontVars, base_path, posts, data, sanArg, sanOut>>

\* a message item: append the text of each output_text entry
MessageItem ==
    /\ Looping
    /\ NextItem(data, idx).type = "message"
    /\ results' = AppendAll(results, OutputTexts(NextItem(data, idx).content))
    /\ idx' = idx + 1
    /\ UNCHANGED <<agent, ran, frontVars, base_path, fs, posts, data, ret, calls, sanArg, sanOut>>

\* an item of any other type is skipped
SkippedItem ==
    /\ Looping
    /\ NextItem(data, idx).type \notin {"function_call", "message"}
    /\ idx' = idx + 1
    /\ UNCHANGED <<agent, ran, frontVars, base_path, fs, posts, data, results, ret, calls, sanArg, sanOut>>

\* return "\n".join(results)
Return ==
    /\ ret.state = "running"
    /\ posts > 0
    /\ idx > Len(data)
    /\ ret' = ReturnedText(Join(results, <<"\n">>))
    /\ UNCHANGED <<agent, ran, frontVars, base_path, fs, posts, data, idx, results, calls, sanArg, sanOut>>

Next == _run_direct \/ _run_rlm \/ _run_responses(Responses) \/ FunctionCallItem \/ MessageItem \/ SkippedItem \/ Return

Spec == Init /\ [][Next]_vars

\* a run whose response writes and reads files inside the root
NextRoundTrip ==
    \/ _run_direct
    \/ _run_rlm
    \/ _run_responses(SeqsUpTo(RoundTripItems, MaxRoundTripItems))
    \/ FunctionCallItem
    \/ MessageItem
    \/ SkippedItem
    \/ Return

SpecRoundTrip == Init /\ [][NextRoundTrip]_vars

(***************************************************************************)
(* _sanitize_path called directly, as the unit tests call it.              *)
(***************************************************************************)
PathChars == {"a", ".", "/"}

InitSanitize ==
    /\ base_path \in SeqsUpTo(PathChars, MaxRootLen)
    /\ sanArg \in SeqsUpTo(PathChars, MaxPathLen)
    /\ sanOut = NotCalled
    /\ fs = FsEmptyRoot
    /\ agent = GreedyAgent("ibm/granite4", 3, "direct", "http://localhost:11434")
    /\ ran = Ran("", Returned(<<>>))
    /\ chat = Idle /\ server = Idle /\ invoices = Idle /\ upload = Idle
    /\ posts = 0
    /\ data = <<>>
    /\ idx = 1
    /\ results = <<>>
    /\ ret = Running
    /\ calls = <<>>

SanitizeCall ==
    /\ ~sanOut.called
    /\ sanOut' = [called |-> TRUE, out |-> _sanitize_path(JStr(sanArg), base_path)]
    /\ UNCHANGED <<agent, ran, frontVars, base_path, fs, posts, data, idx, results, ret, calls, sanArg>>

NextSanitize == SanitizeCall

SpecSanitize == InitSanitize /\ [][NextSanitize]_vars

(***************************************************************************)
(* The command-line chat loop (src/granite-coder/src/cli.py).  One step is *)
(* one pass of the loop: the prompt, the command tests, the agent's run    *)
(* and the handlers, and the farewell once the loop is left.  An echo is   *)
(* recorded with the stream it goes to.                                    *)
(***************************************************************************)
\* str.lower, on the letters the inputs are spelled with
lower(s) ==
    [i \in 1..Len(s) |->
        CASE s[i] = "C" -> "c" [] s[i] = "E" -> "e" [] s[i] = "I" -> "i"
          [] s[i] = "Q" -> "q" [] s[i] = "T" -> "t" [] s[i] = "U" -> "u"
          [] s[i] = "X" -> "x" [] OTHER -> s[i]]

\* str.strip
strip(s) ==
    LET inked == {i \in 1..Len(s) : s[i] # " "}
    IN  IF inked = {} THEN <<>>
        ELSE SubSeq(s, CHOOSE i \in inked : \A j \in inked : i <= j,
                       CHOOSE i \in inked : \A j \in inked : j <= i)

\* the test of the command spelled as typed
IsExit_AsTyped(task) == task \in {<<"e", "x", "i", "t">>, <<"q", "u", "i", "t">>}

\* task.lower() in ("exit", "quit")
IsExit(task) == lower(task) \in {<<"e", "x", "i", "t">>, <<"q", "u", "i", "t">>}

\* one pass of the loop body for what click.prompt gave and, where agent.run is
\* reached, for its outcome: the lines echoed, whether the agent ran and whether
\* the loop is left
chat_iteration(prompt, out) ==
    IF prompt.raised
    THEN IF prompt.exc = "KeyboardInterrupt"
         THEN [echoes |-> <<>>, ran |-> FALSE, left |-> TRUE]
         ELSE [echoes |-> <<[text |-> <<"Error: ">> \o prompt.msg, err |-> TRUE]>>,
               ran |-> FALSE, left |-> FALSE]
    ELSE IF IsExit(prompt.value)
    THEN [echoes |-> <<>>, ran |-> FALSE, left |-> TRUE]
    ELSE IF lower(prompt.value) = <<"c", "l", "e", "a", "r">>
    THEN [echoes |-> <<[text |-> <<"\\033[2J\\033[H">>, err |-> FALSE]>>,
          ran |-> FALSE, left |-> FALSE]
    ELSE IF strip(prompt.value) = <<>>
    THEN [echoes |-> <<>>, ran |-> FALSE, left |-> FALSE]
    ELSE IF ~out.raised
    THEN [echoes |-> <<[text |-> <<"Thinking...">>, err |-> FALSE],
                       [text |-> <<"\n">> \o out.value \o <<"\n">>, err |-> FALSE]>>,
          ran |-> TRUE, left |-> FALSE]
    ELSE IF out.exc = "KeyboardInterrupt"
    THEN [echoes |-> <<[text |-> <<"Thinking...">>, err |-> FALSE]>>,
          ran |-> TRUE, left |-> TRUE]
    ELSE [echoes |-> <<[text |-> <<"Thinking...">>, err |-> FALSE],
                       [text |-> <<"Error: ">> \o out.msg, err |-> TRUE]>>,
          ran |-> TRUE, left |-> FALSE]

\* the banner is echoed and the agent built from the command's options; the
\* loop is at its first prompt
InitChat ==
    /\ base_path = SandboxRoot
    /\ fs = FsPopulated
    /\ posts = 0
    /\ data = <<>>
    /\ idx = 1
    /\ results = <<>>
    /\ ret = Running
    /\ calls = <<>>
    /\ sanArg = <<>>
    /\ sanOut = NotCalled
    /\ agent \in {GreedyAgent("ibm/granite4", 3, m, "http://localhost:11434") :
                     m \in {"direct", "rlm", "responses"}}
    /\ ran = Ran("", Returned(<<>>))
    /\ chat = [pc |-> "prompt",
               echoes |-> <<[text |-> <<"Granite Coder (using ", agent.model_name,
                                        ", mode: ", agent.mode, ")">>, err |-> FALSE],
                            [text |-> <<"Type 'exit' to quit, 'clear' to clear history\n">>,
                             err |-> FALSE]>>,
               turns |-> <<>>]
    /\ server = Idle /\ invoices = Idle /\ upload = Idle

\* one pass of the while loop.  click.prompt gives the text typed (the empty text
\* when nothing is typed) or is interrupted, which reaches the loop either as
\* KeyboardInterrupt or as click's Abort; agent.run returns a reply, raises an
\* error or is interrupted.  Leaving the loop echoes the farewell.
chat_turn ==
    /\ chat.pc = "prompt"
    /\ Len(chat.turns) < MaxInputs
    /\ \E prompt \in {Returned(t) : t \in
                        {<<"e", "x", "i", "t">>, <<"E", "X", "I", "T">>,
                         <<"Q", "u", "i", "t">>, <<" ", "q", "u", "i", "t">>,
                         <<"c", "l", "e", "a", "r">>, <<"C", "l", "e", "a", "r">>,
                         <<>>, <<" ">>, <<"h", "i">>}}
                     \cup {Raised("KeyboardInterrupt", <<>>), Raised("Abort", <<>>)},
          out \in {Returned(<<"reply">>), Raised("ConnectionError", <<"refused">>),
                   Raised("KeyboardInterrupt", <<>>)} :
          chat' = [pc |-> IF chat_iteration(prompt, out).left THEN "done" ELSE "prompt",
                   echoes |-> chat.echoes \o chat_iteration(prompt, out).echoes
                              \o (IF chat_iteration(prompt, out).left
                                  THEN <<[text |-> <<"Goodbye!">>, err |-> FALSE]>>
                                  ELSE <<>>),
                   turns |-> Append(chat.turns,
                                    [prompt |-> prompt,
                                     ran |-> chat_iteration(prompt, out).ran,
                                     out |-> IF chat_iteration(prompt, out).ran THEN out
                                             ELSE Returned(<<>>),
                                     first |-> Len(chat.echoes) + 1,
                                     left |-> chat_iteration(prompt, out).left])]
    /\ UNCHANGED <<base_path, fs, posts, data, idx, results, ret, calls, sanArg, sanOut,
                   agent, ran, server, invoices, upload>>

NextChat == chat_turn

SpecChat == InitChat /\ [][NextChat]_vars

(***************************************************************************)
(* The MCP server's call_tool (src/granite-coder/src/server.py).  One step *)
(* is one request: the handler runs to its return or to the exception it   *)
(* lets out.  The log holds, per request, what the handler was given, the  *)
(* path it handed to agent.run, the path run took and the outcome.         *)
(***************************************************************************)
\* an agent built with the tool-calling mode where none is given
GreedyAgentDefaults_Responses(model_name) ==
    GreedyAgent(model_name, 3, "responses", "http://localhost:11434")

\* GreedyAgent(model_name=...): the other parameters take __init__'s defaults
GreedyAgentDefaults(model_name) ==
    GreedyAgent(model_name, 3, "direct", "http://localhost:11434")

\* the server is up and no agent has been built yet
InitServer ==
    /\ base_path = SandboxRoot
    /\ fs = FsPopulated
    /\ posts = 0
    /\ data = <<>>
    /\ idx = 1
    /\ results = <<>>
    /\ ret = Running
    /\ calls = <<>>
    /\ sanArg = <<>>
    /\ sanOut = NotCalled
    /\ agent = GreedyAgent("", 0, "", "")
    /\ ran = Ran("", Returned(<<>>))
    /\ server = [pc |-> "serving", log |-> <<>>]
    /\ chat = Idle /\ invoices = Idle /\ upload = Idle

\* call_tool(name, arguments).  solve_task builds a fresh agent and runs it on
\* arguments.get("path", "."); the run takes the path its mode selects: the
\* direct and the RLM path make one model call, which returns or raises, and the
\* tool-calling path posts its request and is handed a response payload.  An
\* exception of the run leaves the handler.
call_tool(name, arguments) ==
    /\ server.pc = "serving"
    /\ Len(server.log) < MaxRequests
    /\ IF name = "check_status"
       THEN /\ server' = [server EXCEPT !.log =
                             Append(@, [name |-> name, arguments |-> arguments,
                                        path |-> JAbsent, branch |-> "",
                                        out |-> Returned(<<"Granite Coder is ONLINE and Greedy.">>)])]
            /\ UNCHANGED <<agent, ran, posts, data, idx>>
       ELSE IF name = "solve_task"
       THEN /\ agent' = GreedyAgentDefaults("ibm/granite4")
            /\ IF run(GreedyAgentDefaults("ibm/granite4").mode) = "responses"
               THEN /\ ran' = Ran("responses", Returned(<<>>))
                    /\ posts' = posts + 1
                    /\ data' \in Responses
                    /\ idx' = 1
               ELSE /\ ran' \in {Ran(run(GreedyAgentDefaults("ibm/granite4").mode), o) :
                                    o \in {Returned(<<"reply">>),
                                           Raised("ResponseError", <<"model not found">>)}}
                    /\ UNCHANGED <<posts, data, idx>>
            /\ server' = [server EXCEPT !.log =
                             Append(@, [name |-> name, arguments |-> arguments,
                                        path |-> IF arguments.m.path.t = "absent"
                                                 THEN JStr(Dot) ELSE arguments.m.path,
                                        branch |-> ran'.branch,
                                        out |-> ran'.out])]
       ELSE /\ server' = [server EXCEPT !.log =
                             Append(@, [name |-> name, arguments |-> arguments,
                                        path |-> JAbsent, branch |-> "",
                                        out |-> Raised("ValueError",
                                                       <<"Unknown tool: ", name>>)])]
            /\ UNCHANGED <<agent, ran, posts, data, idx>>
    /\ UNCHANGED <<base_path, fs, results, ret, calls, sanArg, sanOut, chat, invoices, upload>>

NextServer ==
    \E name \in {"check_status", "solve_task", "read_file", "write_file"},
       arguments \in {JObj(p, JAbsent, JAbsent) : p \in {JAbsent, JStr(Dot), JStr(P_up_f)}} :
        call_tool(name, arguments)

SpecServer == InitServer /\ [][NextServer]_vars

(***************************************************************************)
(* dspy-liquid-agent's InvoiceAgent                                        *)
(* (src/dspy-liquid-agent/src/invoice_parser_ui/agents/invoice_agent.py).  *)
(* An image stands for what the two model calls made for it come to: the   *)
(* vision step's outcome (the text read, or the exception that opening the *)
(* file, the model call or the validation raises) and the extraction       *)
(* step's outcome.  An Optional value is a sequence: empty for None, of    *)
(* one element for a value.                                                *)
(***************************************************************************)
\* _image_to_text: None when ollama is not available or when anything in the try
\* block raises, else the validated InvoiceText
_image_to_text(available, image) ==
    IF ~available THEN Returned(<<>>)
    ELSE IF image.text.raised THEN Returned(<<>>)
    ELSE Returned(<<[description |-> image.text.value]>>)

\* _text_to_structured_data: None when ollama is not available or when anything
\* in the try block raises, else the validated InvoiceData
_text_to_structured_data(available, image) ==
    IF ~available THEN Returned(<<>>)
    ELSE IF image.data.raised THEN Returned(<<>>)
    ELSE Returned(<<image.data.value>>)

\* the extraction step invoked whatever the vision step returned
process_single_invoice_BothSteps(available, image) ==
    [out |-> IF _image_to_text(available, image).value = <<>>
                \/ _text_to_structured_data(available, image).value = <<>>
             THEN Returned(<<>>)
             ELSE Returned(<<[extracted_text |->
                                  _image_to_text(available, image).value[1].description,
                              utility |->
                                  _text_to_structured_data(available, image).value[1].utility,
                              amount |->
                                  _text_to_structured_data(available, image).value[1].amount,
                              currency |->
                                  _text_to_structured_data(available, image).value[1].currency]>>),
     steps |-> <<"_image_to_text", "_text_to_structured_data">>]

\* process_single_invoice: its outcome and the steps it invoked, in order
process_single_invoice(available, image) ==
    IF _image_to_text(available, image).raised
    THEN [out |-> _image_to_text(available, image), steps |-> <<"_image_to_text">>]
    ELSE IF _image_to_text(available, image).value = <<>>
    THEN [out |-> Returned(<<>>), steps |-> <<"_image_to_text">>]
    ELSE IF _text_to_structured_data(available, image).raised
    THEN [out |-> _text_to_structured_data(available, image),
          steps |-> <<"_image_to_text", "_text_to_structured_data">>]
    ELSE IF _text_to_structured_data(available, image).value = <<>>
    THEN [out |-> Returned(<<>>),
          steps |-> <<"_image_to_text", "_text_to_structured_data">>]
    ELSE [out |-> Returned(<<[extracted_text |->
                                  _image_to_text(available, image).value[1].description,
                              utility |->
                                  _text_to_structured_data(available, image).value[1].utility,
                              amount |->
                                  _text_to_structured_data(available, image).value[1].amount,
                              currency |->
                                  _text_to_structured_data(available, image).value[1].currency]>>),
          steps |-> <<"_image_to_text", "_text_to_structured_data">>]

\* the images drawn: the vision step reads a text (an empty one included) or
\* raises, the extraction step yields the bill's data or raises
Images ==
    [text : {Returned(<<"bill">>), Returned(<<>>),
             Raised("FileNotFoundError", <<"No such file or directory">>),
             Raised("ValidationError", <<"Invalid JSON">>)},
     data : {Returned([utility |-> "water", amount |-> 12, currency |-> "EUR"]),
             Raised("ResponseError", <<"model not found">>)}]

\* process_batch_invoices is entered with its list of images; results is empty
InitInvoice ==
    /\ base_path = SandboxRoot
    /\ fs = FsPopulated
    /\ posts = 0
    /\ data = <<>>
    /\ idx = 1
    /\ results = <<>>
    /\ ret = Running
    /\ calls = <<>>
    /\ sanArg = <<>>
    /\ sanOut = NotCalled
    /\ agent = GreedyAgent("", 0, "", "")
    /\ ran = Ran("", Returned(<<>>))
    /\ \E available \in BOOLEAN, image_paths \in SeqsUpTo(Images, MaxInvoices) :
           invoices = [pc |-> "loop", available |-> available, image_paths |-> image_paths,
                       results |-> <<>>, steps |-> <<>>, out |-> Returned(<<>>)]
    /\ chat = Idle /\ server = Idle /\ upload = Idle

\* one pass of process_batch_invoices' loop: process_single_invoice on the next
\* image and its result appended; an exception it let out would leave the loop
process_batch_step ==
    /\ invoices.pc = "loop"
    /\ Len(invoices.results) < Len(invoices.image_paths)
    /\ invoices' =
           IF process_single_invoice(invoices.available,
                  invoices.image_paths[Len(invoices.results) + 1]).out.raised
           THEN [invoices EXCEPT
                    !.pc = "raised",
                    !.steps = Append(@, process_single_invoice(invoices.available,
                                  invoices.image_paths[Len(invoices.results) + 1]).steps),
                    !.out = process_single_invoice(invoices.available,
                                  invoices.image_paths[Len(invoices.results) + 1]).out]
           ELSE [invoices EXCEPT
                    !.steps = Append(@, process_single_invoice(invoices.available,
                                  invoices.image_paths[Len(invoices.results) + 1]).steps),
                    !.results = Append(@, process_single_invoice(invoices.available,
                                  invoices.image_paths[Len(invoices.results) + 1]).out.value)]
    /\ UNCHANGED <<base_path, fs, posts, data, idx, results, ret, calls, sanArg, sanOut,
                   agent, ran, chat, server, upload>>

\* return results
process_batch_return ==
    /\ invoices.pc = "loop"
    /\ Len(invoices.results) = Len(invoices.image_paths)
    /\ invoices' = [invoices EXCEPT !.pc = "returned", !.out = Returned(invoices.results)]
    /\ UNCHANGED <<base_path, fs, posts, data, idx, results, ret, calls, sanArg, sanOut,
                   agent, ran, chat, server, upload>>

NextInvoice == process_batch_step \/ process_batch_return

SpecInvoice == InitInvoice /\ [][NextInvoice]_vars

(***************************************************************************)
(* The Streamlit front end's loop over the uploaded files, in              *)
(* process_invoices (src/dspy-liquid-agent/src/invoice_parser_ui/app.py).  *)
(* An uploaded file stands for its name, for whether its temporary copy    *)
(* can be written, and for what processing it comes to: a result, nothing, *)
(* or an exception.  temp is the set of files in the temporary directory.  *)
(***************************************************************************)
\* save_uploaded_file: the copy is written under the file's name in the temporary
\* directory and its path returned, or writing it raises
save_uploaded_file(temp, uploaded_file) ==
    IF uploaded_file.save = "raised"
    THEN [out |-> Raised("OSError", <<"cannot write the temporary copy">>), temp |-> temp]
    ELSE [out |-> Returned(<<"temp/", uploaded_file.name>>),
          temp |-> temp \cup {<<"temp/", uploaded_file.name>>}]

\* the files drawn for one run
UploadedFiles ==
    [name : {"a.png", "b.png"}, save : {"saved", "raised"},
     process : {"result", "none", "raised"}]

\* the loop is entered with at least one file; results is empty
InitUpload ==
    /\ base_path = SandboxRoot
    /\ fs = FsPopulated
    /\ posts = 0
    /\ data = <<>>
    /\ idx = 1
    /\ results = <<>>
    /\ ret = Running
    /\ calls = <<>>
    /\ sanArg = <<>>
    /\ sanOut = NotCalled
    /\ agent = GreedyAgent("", 0, "", "")
    /\ ran = Ran("", Returned(<<>>))
    /\ \E image_files \in SeqsUpTo(UploadedFiles, MaxUploads) \ {<<>>} :
           upload = [pc |-> "save", image_files |-> image_files, i |-> 1, temp |-> {},
                     temp_path |-> <<>>, results |-> <<>>, handled |-> <<>>,
                     trace |-> <<>>]
    /\ chat = Idle /\ server = Idle /\ invoices = Idle

\* the head of one pass: the trace entry and temp_path = save_uploaded_file(...),
\* which stands before the try statement, so that an exception it raises leaves
\* the loop for the handler around the whole run
process_invoices_save ==
    /\ upload.pc = "save"
    /\ upload' =
           IF save_uploaded_file(upload.temp, upload.image_files[upload.i]).out.raised
           THEN [upload EXCEPT
                    !.pc = "failed",
                    !.trace = @ \o <<"processing", "error">>]
           ELSE [upload EXCEPT
                    !.pc = "try",
                    !.trace = Append(@, "processing"),
                    !.temp = save_uploaded_file(upload.temp, upload.image_files[upload.i]).temp,
                    !.temp_path =
                        save_uploaded_file(upload.temp, upload.image_files[upload.i]).out.value]
    /\ UNCHANGED <<base_path, fs, posts, data, idx, results, ret, calls, sanArg, sanOut,
                   agent, ran, chat, server, invoices>>

\* the rest of the pass: the try statement around process_single_invoice with
\* its handler and its finally clause, which removes the temporary copy, and the
\* step to the next file
process_invoices_try ==
    /\ upload.pc = "try"
    /\ upload' =
           [upload EXCEPT
               !.pc = IF upload.i = Len(upload.image_files) THEN "done" ELSE "save",
               !.i = @ + 1,
               !.handled = Append(@, upload.i),
               !.results =
                   IF upload.image_files[upload.i].process = "result"
                   THEN Append(@, [file_name |-> upload.image_files[upload.i].name,
                                   file |-> upload.i])
                   ELSE @,
               !.trace =
                   IF upload.image_files[upload.i].process = "result"
                   THEN @ \o <<"processing", "success">>
                   ELSE IF upload.image_files[upload.i].process = "none"
                   THEN Append(@, "warning")
                   ELSE Append(@, "error"),
               !.temp = @ \ {upload.temp_path}]
    /\ UNCHANGED <<base_path, fs, posts, data, idx, results, ret, calls, sanArg, sanOut,
                   agent, ran, chat, server, invoices>>

NextUpload == process_invoices_save \/ process_invoices_try

SpecUpload == InitUpload /\ [][NextUpload]_vars

(***************************************************************************)
(* Properties.                                                             *)
(***************************************************************************)
\* component-wise containment: root's components are a prefix of p's
InsideRoot(p, root) ==
    /\ Len(Components(root)) <= Len(Components(p))
    /\ SubSeq(Components(p), 1, Len(Components(root))) = Components(root)

\* where a path argument resolves against the sandbox root
Resolution(path, root) == abspath(join(root, path))

\* p is, or lies beneath, a sibling of root whose name extends root's name
SiblingExtendingName(p, root) ==
    /\ Components(root) # <<>>
    /\ Len(Components(root)) <= Len(Components(p))
    /\ \A i \in 1..(Len(Components(root)) - 1) : Components(p)[i] = Components(root)[i]
    /\ Components(p)[Len(Components(root))] # Components(root)[Len(Components(root))]
    /\ StartsWith(Components(p)[Len(Components(root))],
                  Components(root)[Len(Components(root))])

FsTools == {"read_file", "write_file", "list_dir", "search_files"}
FsOps == {"open_r", "makedirs", "open_w", "write", "listdir", "glob"}

\* the "path" argument of a recorded call whose arguments are a mapping
PathArgOf(c) == ArgsGet(c.args, "path").value

HasOp(trace, ops) == \E i \in 1..Len(trace) : trace[i].op \in ops

\* a recorded call of a filesystem tool whose path argument is a string that
\* resolves outside the sandbox root
EscapingCall(c) ==
    /\ c.name \in FsTools
    /\ c.args.t = "obj"
    /\ PathArgOf(c).t = "str"
    /\ ~InsideRoot(Resolution(PathArgOf(c).s, base_path), abspath(base_path))

\* C1: a path argument that resolves outside the sandbox root makes _sanitize_path
\* raise, so the tool called with it raises and performs no filesystem operation.
C1_EscapingPathIsRejected ==
    \A k \in 1..Len(calls) :
        EscapingCall(calls[k]) =>
            /\ calls[k].inner.raised
            /\ ~HasOp(calls[k].trace, FsOps \cup {"sanitize_ok"})

\* C2: a path that resolves to a sibling whose name merely extends the root's name
\* makes _sanitize_path raise: the containment test is component-wise.
C2_SiblingPrefixIsRejected ==
    (sanOut.called /\ SiblingExtendingName(Resolution(sanArg, base_path), abspath(base_path)))
        => sanOut.out.raised

\* C3: for a relative path whose resolution stays inside the root, _sanitize_path
\* returns the resolved absolute path, which is the root or a descendant of it.
C3_InsidePathIsAccepted ==
    (/\ sanOut.called
     /\ ~isabs(sanArg)
     /\ InsideRoot(Resolution(sanArg, base_path), abspath(base_path)))
        => /\ ~sanOut.out.raised
           /\ sanOut.out.value = Resolution(sanArg, base_path)
           /\ InsideRoot(sanOut.out.value, abspath(base_path))

\* a relative path with a ".." segment that resolves to a proper descendant of the
\* root was accepted
C3_Witness ==
    /\ sanOut.called
    /\ ~isabs(sanArg)
    /\ \E i \in 1..Len(Split(sanArg, Slash)) : Split(sanArg, Slash)[i] = DotDot
    /\ ~sanOut.out.raised
    /\ sanOut.out.value # abspath(base_path)
    /\ InsideRoot(sanOut.out.value, abspath(base_path))

\* C4: in every _execute_tool call each filesystem operation comes after a
\* successful _sanitize_path, and a call whose sanitizer raised leaves the
\* filesystem exactly as it was.
C4_NoFilesystemAccessBeforeValidation ==
    \A k \in 1..Len(calls) :
        /\ \A i \in 1..Len(calls[k].trace) :
               calls[k].trace[i].op \in FsOps =>
                   \E j \in 1..(i - 1) : calls[k].trace[j].op = "sanitize_ok"
        /\ HasOp(calls[k].trace, {"sanitize_raised"}) =>
               /\ calls[k].after = calls[k].before
               /\ ~HasOp(calls[k].trace, FsOps)

\* a write_file call was refused by the sanitizer
C4_Witness ==
    \E k \in 1..Len(calls) :
        /\ calls[k].name = "write_file"
        /\ calls[k].inner.raised
        /\ calls[k].inner.exc = "ValueError"
        /\ HasOp(calls[k].trace, {"sanitize_raised"})

\* the matches a search_files call returned, as it printed them
MatchesOf(c) == IF c.out.value = <<>> THEN <<>> ELSE Split(c.out.value, "\n")

\* C5: every match search_files returns denotes an entry inside the sandbox root,
\* whatever the pattern.
C5_SearchStaysInsideRoot ==
    \A k \in 1..Len(calls) :
        (calls[k].name = "search_files" /\ ~calls[k].inner.raised) =>
            \A i \in 1..Len(MatchesOf(calls[k])) :
                InsideRoot(abspath(join(calls[k].trace[1].path, MatchesOf(calls[k])[i])),
                           abspath(base_path))

\* the text the except clause of _execute_tool makes of an exception
ErrorText(name, exc) == <<"Error executing ", name, ": ">> \o exc.msg

\* C6: _execute_tool never raises: whatever the tool name and the arguments, an
\* exception raised inside it comes back as "Error executing <name>: <message>".
C6_ExecuteToolNeverRaises ==
    \A k \in 1..Len(calls) :
        /\ ~calls[k].out.raised
        /\ calls[k].inner.raised =>
               calls[k].out.value = ErrorText(calls[k].name, calls[k].inner)

\* a sanitizer failure and a denied write both came back as error texts
C6_Witness ==
    /\ \E k \in 1..Len(calls) :
           /\ calls[k].inner.raised
           /\ calls[k].inner.exc = "ValueError"
           /\ calls[k].out = Returned(ErrorText(calls[k].name, calls[k].inner))
    /\ \E k \in 1..Len(calls) :
           /\ calls[k].inner.raised
           /\ calls[k].inner.exc = "PermissionError"
           /\ calls[k].out = Returned(ErrorText(calls[k].name, calls[k].inner))

IsToolLine(line) == line # <<>> /\ line[1] = "Tool "

\* the positions of the function_call items among the first n items of the payload
CallItems(n) == {i \in 1..n : data[i].type = "function_call"}

\* C7: a tool call that fails never aborts the turn: the loop only ever stops by
\* returning, after every item was handled, with one line for every function_call
\* item, the failed ones' lines holding the error text.
C7_FailedCallNeverAbortsTurn ==
    ret.state # "running" =>
        /\ ret.state = "returned"
        /\ idx = Len(data) + 1
        /\ Cardinality({i \in 1..Len(results) : IsToolLine(results[i])})
               = Cardinality(CallItems(Len(data)))
        /\ \A k \in 1..Len(calls) :
               calls[k].inner.raised =>
                   \E i \in 1..Len(results) :
                       results[i] = ToolLine(calls[k].name,
                                             ErrorText(calls[k].name, calls[k].inner))

\* C8: _execute_tool is only ever invoked with a mapping as its arguments, and no
\* exception from parsing an item's arguments escapes _process_response.
C8_ArgumentsAlwaysAMapping ==
    /\ \A k \in 1..Len(calls) : calls[k].args.t = "obj"
    /\ ~(ret.state = "raised" /\ ret.exc = "JSONDecodeError")

\* the function_call items handled so far, in payload order
RECURSIVE HandledCalls(_)
HandledCalls(n) ==
    IF n = 0 THEN <<>>
    ELSE HandledCalls(n - 1)
         \o (IF data[n].type = "function_call" THEN <<n>> ELSE <<>>)

\* recorded call k wrote content to its path argument and reported success
WroteOk(k) ==
    /\ calls[k].name = "write_file"
    /\ ~calls[k].inner.raised

\* recorded call k is a write_file whose path resolves where call i's does
WritesSamePath(k, i) ==
    /\ calls[k].name = "write_file"
    /\ calls[k].args.t = "obj"
    /\ PathArgOf(calls[k]).t = "str"
    /\ Resolution(PathArgOf(calls[k]).s, base_path)
           = Resolution(PathArgOf(calls[i]).s, base_path)

\* C9: the tool calls of a response run one after another in payload order, each
\* on the filesystem the one before it left; so a write_file(p, c) that succeeded,
\* followed (with no other write to p between) by read_file(p), makes the read
\* yield c.
C9_CallsRunInPayloadOrder ==
    /\ ret.state # "raised" =>
           /\ Len(calls) = Len(HandledCalls(idx - 1))
           /\ \A k \in 1..Len(calls) :
                  /\ calls[k].name = data[HandledCalls(idx - 1)[k]].name
                  /\ Returned(calls[k].args) = json_loads(data[HandledCalls(idx - 1)[k]].arguments)
    /\ \A k \in 1..(Len(calls) - 1) : calls[k + 1].before = calls[k].after
    /\ calls # <<>> => fs = calls[Len(calls)].after
    /\ \A i, j \in 1..Len(calls) :
           (/\ i < j
            /\ WroteOk(i)
            /\ calls[j].name = "read_file"
            /\ calls[j].args.t = "obj"
            /\ PathArgOf(calls[j]) = PathArgOf(calls[i])
            /\ \A k \in (i + 1)..(j - 1) : ~WritesSamePath(k, i))
               => calls[j].out = Returned(calls[i].args.m.content.s)

\* a file was written and then read back in the same response, the read yielding
\* the content just written and not what the file held before the turn
C9_Witness ==
    /\ ret.state = "returned"
    /\ \E i, j \in 1..Len(calls) :
           /\ i < j
           /\ WroteOk(i)
           /\ calls[j].name = "read_file"
           /\ calls[j].args.t = "obj"
           /\ PathArgOf(calls[j]) = PathArgOf(calls[i])
           /\ calls[j].out = Returned(calls[i].args.m.content.s)
           /\ open_read(calls[i].before, Resolution(PathArgOf(calls[i]).s, base_path))
                  # calls[j].out

\* C10 as stated: in the returned transcript no plain-text segment comes before a
\* tool result, whatever the order of the items.
C10_TextNeverBeforeToolResult ==
    ret.state = "returned" =>
        \A i, j \in 1..Len(results) :
            (i < j /\ IsToolLine(results[j])) => IsToolLine(results[i])

\* the recorded call made for the item at position n of the payload
CallFor(n) == calls[CHOOSE k \in 1..Len(calls) : calls[k].item = n]

\* the transcript lines the first n items of the payload give, in payload order
RECURSIVE LinesInPayloadOrder(_)
LinesInPayloadOrder(n) ==
    IF n = 0 THEN <<>>
    ELSE LinesInPayloadOrder(n - 1)
         \o (IF data[n].type = "function_call"
             THEN <<ToolLine(data[n].name, CallFor(n).out.value)>>
             ELSE IF data[n].type = "message" THEN OutputTexts(data[n].content)
             ELSE <<>>)

\* C10, amended: the transcript holds each tool's result prefixed with its name and
\* each plain-text segment in the order their items appear in the payload, joined
\* by newlines.
C10_TranscriptInPayloadOrder ==
    /\ ret.state # "raised" => results = LinesInPayloadOrder(idx - 1)
    /\ ret.state = "returned" => ret.value = Join(results, <<"\n">>)

\* a transcript was returned in which a plain-text segment comes before a tool result
C10_Witness ==
    /\ ret.state = "returned"
    /\ \E i, j \in 1..Len(results) :
           i < j /\ ~IsToolLine(results[i]) /\ IsToolLine(results[j])

\* C11: for a tool name other than the four tools, _execute_tool returns the text
\* "Unknown tool: <name>", raises nothing and performs no filesystem operation,
\* whatever the arguments are.
C11_UnknownToolIsReported ==
    \A k \in 1..Len(calls) :
        calls[k].name \notin FsTools =>
            /\ ~calls[k].inner.raised
            /\ calls[k].out = Returned(<<"Unknown tool: ", calls[k].name>>)
            /\ calls[k].trace = <<>>
            /\ calls[k].after = calls[k].before

\* delete_everything was requested, once with a path and once with a list for
\* arguments, and the turn went on to return
C11_Witness ==
    /\ ret.state = "returned"
    /\ \E k \in 1..Len(calls) :
           calls[k].name = "delete_everything" /\ calls[k].args.t = "obj"
    /\ \E k \in 1..Len(calls) :
           calls[k].name = "delete_everything" /\ calls[k].args.t = "list"

\* the write_file calls made before call j whose path resolves where call j's does
WritesBefore(j) == {k \in 1..(j - 1) : WritesSamePath(k, j)}

\* the last of them
LastWriteBefore(j) == CHOOSE k \in WritesBefore(j) : \A m \in WritesBefore(j) : m <= k

SafePathOf(k) == calls[k].trace[1].path

\* recorded call k is a write_file with a text content whose path the sanitizer
\* accepted
SanitizedWrite(k) ==
    /\ calls[k].name = "write_file"
    /\ calls[k].args.t = "obj"
    /\ calls[k].trace # <<>>
    /\ calls[k].trace[1].op = "sanitize_ok"
    /\ ArgsGet(calls[k].args, "content").value.t = "str"

\* the filesystem lets a file be created or replaced at p: what exists above p is
\* directories, the deepest of them writable, and p is missing or a writable file
CanWriteAt(f, p) ==
    /\ \A q \in Ancestors(p) : exists(f, q) => f[q].kind = "dir"
    /\ exists(f, p) => (f[p].kind = "file" /\ f[p].writable)
    /\ \A q \in AncestorsOrSelf(p) :
           (~exists(f, q) /\ exists(f, dirname(q))) => f[dirname(q)].writable

\* C13: write_file(p, c) on a path inside the root that the filesystem lets it
\* write creates every missing directory above p, leaves at p a file holding
\* exactly c whatever it held before, changes nothing else, and returns
\* "Successfully wrote to <p>" with p as the arguments gave it.
C13_WriteCreatesDirsAndOverwrites ==
    \A k \in 1..Len(calls) :
        (SanitizedWrite(k) /\ CanWriteAt(calls[k].before, SafePathOf(k)))
            => /\ calls[k].out = Returned(<<"Successfully wrote to ">> \o PathArgOf(calls[k]).s)
               /\ ~calls[k].inner.raised
               /\ DOMAIN calls[k].after = DOMAIN calls[k].before \cup AncestorsOrSelf(SafePathOf(k))
               /\ \A q \in Ancestors(SafePathOf(k)) : calls[k].after[q].kind = "dir"
               /\ calls[k].after[SafePathOf(k)].kind = "file"
               /\ calls[k].after[SafePathOf(k)].content = calls[k].args.m.content.s
               /\ \A q \in DOMAIN calls[k].before \ {SafePathOf(k)} :
                      calls[k].after[q] = calls[k].before[q]

\* one response wrote d/f, whose directory d did not exist, and replaced the
\* content of the existing file f; the paths reported are the relative ones
C13_Witness ==
    /\ \E k \in 1..Len(calls) :
           /\ SanitizedWrite(k)
           /\ PathArgOf(calls[k]).s = P_d_f
           /\ ~exists(calls[k].before, dirname(SafePathOf(k)))
           /\ isdirNode(calls[k].after, dirname(SafePathOf(k)))
           /\ calls[k].out = Returned(<<"Successfully wrote to ">> \o P_d_f)
    /\ \E k \in 1..Len(calls) :
           /\ SanitizedWrite(k)
           /\ PathArgOf(calls[k]).s = P_f
           /\ open_read(calls[k].before, SafePathOf(k)) = Returned(<<"old">>)
           /\ open_read(calls[k].after, SafePathOf(k)) = Returned(C_1)

\* recorded call k is a read_file whose path the sanitizer accepted
SanitizedRead(k) ==
    /\ calls[k].name = "read_file"
    /\ calls[k].args.t = "obj"
    /\ calls[k].trace # <<>>
    /\ calls[k].trace[1].op = "sanitize_ok"

\* C14: read_file on a path inside the root returns the content of the regular
\* file there; where nothing exists, or a directory does, it yields the error
\* text of FileNotFoundError (NotADirectoryError below a file), respectively
\* IsADirectoryError, and no content; it never changes the filesystem.
C14_ReadReturnsContentOrError ==
    \A k \in 1..Len(calls) :
        SanitizedRead(k) =>
            /\ calls[k].after = calls[k].before
            /\ isfileNode(calls[k].before, SafePathOf(k)) =>
                   /\ ~calls[k].inner.raised
                   /\ calls[k].out = Returned(calls[k].before[SafePathOf(k)].content)
            /\ ~isfileNode(calls[k].before, SafePathOf(k)) =>
                   /\ calls[k].inner.raised
                   /\ calls[k].out = Returned(ErrorText("read_file", calls[k].inner))
            /\ isdirNode(calls[k].before, SafePathOf(k)) =>
                   calls[k].inner.exc = "IsADirectoryError"
            /\ ~exists(calls[k].before, SafePathOf(k)) =>
                   calls[k].inner.exc
                       = (IF \E q \in Ancestors(SafePathOf(k)) : isfileNode(calls[k].before, q)
                          THEN "NotADirectoryError" ELSE "FileNotFoundError")

\* one response read a missing file, which gave the error text, and an existing
\* one, which gave its content
C14_Witness ==
    /\ ret.state = "returned"
    /\ \E k \in 1..Len(calls) :
           /\ SanitizedRead(k)
           /\ ~exists(calls[k].before, SafePathOf(k))
           /\ calls[k].inner.raised
           /\ calls[k].inner.exc = "FileNotFoundError"
           /\ calls[k].out = Returned(ErrorText("read_file", calls[k].inner))
    /\ \E k \in 1..Len(calls) :
           /\ SanitizedRead(k)
           /\ InsideRoot(SafePathOf(k), base_path)
           /\ calls[k].out = Returned(<<"old">>)

\* recorded call k is a list_dir whose path the sanitizer accepted
SanitizedList(k) ==
    /\ calls[k].name = "list_dir"
    /\ calls[k].args.t = "obj"
    /\ calls[k].trace # <<>>
    /\ calls[k].trace[1].op = "sanitize_ok"

\* C15: list_dir on a directory inside the root returns the names of its direct
\* entries joined by newlines, every entry once and nothing else; on a path that
\* does not exist or is not a directory it yields an error text, not an empty
\* listing.  The filesystem is left as it was.
C15_ListDirReturnsExactlyTheEntries ==
    \A k \in 1..Len(calls) :
        SanitizedList(k) =>
            /\ calls[k].after = calls[k].before
            /\ isdirNode(calls[k].before, SafePathOf(k)) =>
                   /\ ~calls[k].inner.raised
                   /\ Len(MatchesOf(calls[k]))
                          = Cardinality(EntryNames(calls[k].before, SafePathOf(k)))
                   /\ {MatchesOf(calls[k])[i] : i \in 1..Len(MatchesOf(calls[k]))}
                          = EntryNames(calls[k].before, SafePathOf(k))
            /\ ~isdirNode(calls[k].before, SafePathOf(k)) =>
                   /\ calls[k].inner.raised
                   /\ calls[k].inner.exc
                          = (IF isfileNode(calls[k].before, SafePathOf(k))
                                   \/ \E q \in Ancestors(SafePathOf(k)) :
                                          isfileNode(calls[k].before, q)
                             THEN "NotADirectoryError" ELSE "FileNotFoundError")
                   /\ calls[k].out = Returned(ErrorText("list_dir", calls[k].inner))
                   /\ calls[k].out.value # <<>>

\* one response listed the root, which held two entries, and listed a regular
\* file, which gave an error text
C15_Witness ==
    /\ ret.state = "returned"
    /\ \E k \in 1..Len(calls) :
           /\ SanitizedList(k)
           /\ SafePathOf(k) = base_path
           /\ Cardinality(EntryNames(calls[k].before, SafePathOf(k))) = 2
           /\ Len(MatchesOf(calls[k])) = 2
    /\ \E k \in 1..Len(calls) :
           /\ SanitizedList(k)
           /\ isfileNode(calls[k].before, SafePathOf(k))
           /\ calls[k].inner.raised

\* C16: the text list_dir returns does not depend on the order in which the
\* operating system enumerates the entries: whatever that order, the call yields
\* the text it yielded.
C16_ListDirOrderIndependent ==
    \A k \in 1..Len(calls) :
        (SanitizedList(k) /\ ~calls[k].inner.raised) =>
            \A o \in ListOrders(calls[k].before, PathArgOf(calls[k]), base_path) :
                _tool_list_dir(calls[k].before, PathArgOf(calls[k]), base_path, o).out
                    = calls[k].inner

\* recorded call k is a search_files whose path the sanitizer accepted and whose
\* pattern is a text
SanitizedSearch(k) ==
    /\ calls[k].name = "search_files"
    /\ calls[k].args.t = "obj"
    /\ calls[k].trace # <<>>
    /\ calls[k].trace[1].op = "sanitize_ok"
    /\ ArgsGet(calls[k].args, "pattern").value.t = "str"

\* the pattern of recorded call k
PatternOf(k) == ArgsGet(calls[k].args, "pattern").value.s

\* the pattern names direct entries: it has no "/" and is not the recursive "**"
FlatPattern(pat) == (\A i \in 1..Len(pat) : pat[i] # Slash) /\ ~_isrecursive(pat)

\* the matches returned by recorded call k are exactly the entries of the
\* sanitized path whose names match its pattern, each given relative to that path
SearchReturnsExactlyTheMatches(k) ==
    /\ ~calls[k].inner.raised
    /\ Len(MatchesOf(calls[k]))
           = Cardinality({MatchesOf(calls[k])[i] : i \in 1..Len(MatchesOf(calls[k]))})
    /\ {MatchesOf(calls[k])[i] : i \in 1..Len(MatchesOf(calls[k]))}
           = {n \in EntryNames(calls[k].before, SafePathOf(k)) :
                 fnmatch(n, PatternOf(k)) /\ (_ishidden(PatternOf(k)) \/ ~_ishidden(n))}

\* C17: search_files returns exactly the entries under the sanitized path that
\* match the pattern, relative to that path and joined by newlines, and the text
\* is the same whatever the order in which glob produced the matches.
C17_SearchReturnsSortedMatches ==
    \A k \in 1..Len(calls) :
        (SanitizedSearch(k) /\ FlatPattern(PatternOf(k))) =>
            /\ SearchReturnsExactlyTheMatches(k)
            /\ \A o \in GlobOrders(calls[k].before, JStr(PatternOf(k)),
                                    PathArgOf(calls[k]), base_path) :
                   _tool_search_files(calls[k].before, JStr(PatternOf(k)),
                                      PathArgOf(calls[k]), base_path, o).out
                       = calls[k].inner

\* the sanitizer refused the path of recorded call k as lying outside the root
RefusedEscape(k) ==
    /\ calls[k].name \in FsTools
    /\ calls[k].args.t = "obj"
    /\ PathArgOf(calls[k]).t = "str"
    /\ HasOp(calls[k].trace, {"sanitize_raised"})

\* the text of the error raised for a path outside the root
EscapeMessage(p) == <<"Path '">> \o p \o <<"' is outside allowed directory">>

TargetsRoot(k) ==
    /\ calls[k].name \in {"read_file", "write_file", "list_dir"}
    /\ calls[k].args.t = "obj"
    /\ \/ calls[k].args.m.path.t = "absent"
       \/ calls[k].args.m.path = JStr(<<>>)
       \/ calls[k].args.m.path = JStr(Dot)
    /\ calls[k].name = "write_file" => calls[k].args.m.content.t = "str"

\* C19: the root itself is an allowed target: for a "path" that is ".", empty or
\* absent the sanitizer succeeds and returns the root; list_dir then lists the
\* root, while read_file and write_file yield the error text of
\* IsADirectoryError and touch no file.
C19_RootItselfIsAllowed ==
    \A k \in 1..Len(calls) :
        TargetsRoot(k) =>
            /\ calls[k].trace # <<>>
            /\ calls[k].trace[1] = Ev("sanitize_ok", abspath(base_path))
            /\ calls[k].after = calls[k].before
            /\ calls[k].name = "list_dir" =>
                   /\ ~calls[k].inner.raised
                   /\ {MatchesOf(calls[k])[i] : i \in 1..Len(MatchesOf(calls[k]))}
                          = EntryNames(calls[k].before, abspath(base_path))
            /\ calls[k].name \in {"read_file", "write_file"} =>
                   /\ calls[k].inner.raised
                   /\ calls[k].inner.exc = "IsADirectoryError"
                   /\ calls[k].out = Returned(ErrorText(calls[k].name, calls[k].inner))

\* one response called list_dir and write_file without a "path": the first
\* listed the two entries of the root, the second gave an error text
C19_Witness ==
    /\ ret.state = "returned"
    /\ \E k \in 1..Len(calls) :
           /\ calls[k].name = "list_dir"
           /\ TargetsRoot(k)
           /\ calls[k].args.m.path.t = "absent"
           /\ Len(MatchesOf(calls[k])) = 2
    /\ \E k \in 1..Len(calls) :
           /\ calls[k].name = "write_file"
           /\ TargetsRoot(k)
           /\ calls[k].args.m.path.t = "absent"
           /\ calls[k].inner.raised

HasTextPath(k) ==
    /\ calls[k].name \in FsTools
    /\ calls[k].args.t = "obj"
    /\ PathArgOf(calls[k]).t = "str"

\* C21: _sanitize_path decides on the path strings alone: its verdict in a call is
\* what the path and the root give, whatever the filesystem holds at that moment,
\* so two calls with the same path get the same verdict whether or not the target
\* exists; and the sanitizer itself changes nothing (a call it refuses leaves the
\* filesystem as it was).
C21_SanitizerIsPurelyLexical ==
    /\ \A k \in 1..Len(calls) :
           HasTextPath(k) =>
               /\ calls[k].trace # <<>>
               /\ calls[k].trace[1] = SanitizeEv(_sanitize_path(PathArgOf(calls[k]), base_path))
               /\ calls[k].trace[1].op = "sanitize_raised" => calls[k].after = calls[k].before
    /\ \A k, l \in 1..Len(calls) :
           (HasTextPath(k) /\ HasTextPath(l) /\ PathArgOf(calls[k]) = PathArgOf(calls[l]))
               => calls[k].trace[1] = calls[l].trace[1]

\* the same path was checked twice, first when nothing existed there and again
\* when a file did, and was accepted both times with the same resolved path
C21_Witness ==
    \E k, l \in 1..Len(calls) :
        /\ k < l
        /\ HasTextPath(k) /\ HasTextPath(l)
        /\ PathArgOf(calls[k]) = PathArgOf(calls[l])
        /\ calls[k].trace[1].op = "sanitize_ok"
        /\ calls[l].trace[1] = calls[k].trace[1]
        /\ ~exists(calls[k].before, calls[k].trace[1].path)
        /\ exists(calls[l].before, calls[l].trace[1].path)

\* what _execute_tool can yield for recorded call k on the filesystem the call
\* found, one outcome for each order the operating system can enumerate in
OutcomesOf(k) ==
    {_execute_tool(calls[k].before, calls[k].name, calls[k].args, base_path, o) :
        o \in ToolOrders(calls[k].before, calls[k].name, calls[k].args, base_path)}

\* C22: the dispatcher keeps no state between calls: no step changes the agent's
\* fields (model_name, max_iterations, mode, base_url), and what a tool call
\* yields and does to the filesystem is determined by its name, its arguments, the
\* root and the filesystem it finds, whatever calls were made before it.
C22_NoStateBetweenCalls ==
    /\ [][agent' = agent]_vars
    /\ [](\A k \in 1..Len(calls) :
              \E r \in OutcomesOf(k) :
                  /\ calls[k].out = r.out
                  /\ calls[k].after = r.fs)

\* the same read_file call was made twice in one response with a write between
\* the two: each time it yielded what the file held at that moment
C22_Witness ==
    /\ ret.state = "returned"
    /\ Len(calls) = 3
    /\ calls[1].name = "read_file"
    /\ calls[3].name = "read_file"
    /\ calls[1].args = calls[3].args
    /\ WroteOk(2)
    /\ calls[1].out # calls[3].out
    /\ calls[3].out = Returned(calls[2].args.m.content.s)
    /\ agent.mode = "responses"

\* the filesystem entries recorded call k created or changed
ChangedBy(k) ==
    {q \in DOMAIN calls[k].before \cup DOMAIN calls[k].after :
        \/ q \notin DOMAIN calls[k].before
        \/ q \notin DOMAIN calls[k].after
        \/ calls[k].before[q] # calls[k].after[q]}

\* only a write_file whose path the sanitizer accepted changes the filesystem, and
\* only at the resolved path and the directories above it
OnlyWritesChange ==
    \A k \in 1..Len(calls) :
        /\ calls[k].name # "write_file" => calls[k].after = calls[k].before
        /\ ChangedBy(k) # {} =>
               /\ calls[k].trace # <<>>
               /\ calls[k].trace[1].op = "sanitize_ok"
               /\ ChangedBy(k) \subseteq AncestorsOrSelf(SafePathOf(k))

\* C23: read_file, list_dir, search_files and an unknown tool leave the filesystem
\* as it was, whatever their arguments and their outcome; only a write_file whose
\* path the sanitizer accepted changes it, and what it changes lies at the resolved
\* path or the directories above it, inside the root.
C23_OnlyWritesInsideRootChange ==
    /\ OnlyWritesChange
    /\ \A k \in 1..Len(calls) :
           \A q \in ChangedBy(k) : InsideRoot(q, abspath(base_path))

\* the lines item n of the payload stands for in the transcript
LinesOfItem(n) ==
    IF data[n].type = "function_call"
    THEN <<(<<"Tool ", data[n].name, ": ">> \o CallFor(n).out.value)>>
    ELSE IF data[n].type = "message"
    THEN LET texts == SelectSeq(data[n].content, LAMBDA c : c.type = "output_text")
         IN  [i \in 1..Len(texts) |-> texts[i].text]
    ELSE <<>>

RECURSIVE LinesOfItems(_)
LinesOfItems(n) == IF n = 0 THEN <<>> ELSE LinesOfItems(n - 1) \o LinesOfItem(n)

\* C24: the transcript holds, in payload order, one 'Tool <name>: <result>' line
\* for each function_call item and one line for each output_text entry of each
\* message item; other items and other entries add no line, a tool runs only for
\* a function_call item, and a payload without output gives the empty string.
C24_OneLinePerProcessedElement ==
    /\ ret.state # "raised" =>
           /\ results = LinesOfItems(idx - 1)
           /\ Len(calls) = Cardinality(CallItems(idx - 1))
    /\ \A k \in 1..Len(calls) : data[calls[k].item].type = "function_call"
    /\ ret.state = "returned" =>
           /\ ret.value = Join(results, <<"\n">>)
           /\ data = <<>> => ret.value = <<>>

\* a transcript of two lines was returned for a message holding a refusal and an
\* output_text entry followed by a tool call
C24_Witness ==
    /\ ret.state = "returned"
    /\ Len(data) = 2
    /\ data[1].type = "message"
    /\ Len(data[1].content) = 2
    /\ data[1].content[1].type = "refusal"
    /\ data[2].type = "function_call"
    /\ Len(results) = 2
    /\ results[1] = data[1].content[2].text
    /\ IsToolLine(results[2])

\* a payload of items that are neither calls nor messages gave the empty string
C24_WitnessSkipped ==
    /\ ret.state = "returned"
    /\ Len(data) = 2
    /\ \A i \in 1..2 : data[i].type \notin {"function_call", "message"}
    /\ ret.value = <<>>

\* C25: run takes the RLM path for mode 'rlm', the tool-calling path for mode
\* 'responses' and the direct chat path for every other mode; on the direct and
\* RLM paths no request for tool calls is posted, no tool is executed and the
\* filesystem is left as it was.
C25_RunDispatchesOnMode ==
    /\ ran.branch # "" =>
           ran.branch = (CASE agent.mode = "rlm" -> "rlm"
                           [] agent.mode = "responses" -> "responses"
                           [] OTHER -> "direct")
    /\ posts > 0 => ran.branch = "responses"
    /\ ran.branch \in {"direct", "rlm"} =>
           /\ posts = 0
           /\ calls = <<>>
           /\ results = <<>>
           /\ fs \in InitialFilesystems
    /\ ran.branch # "responses" => ret.state = "running"

\* an agent built with a mode run does not know took the direct chat path
C25_Witness ==
    /\ agent.mode \notin {"direct", "rlm", "responses"}
    /\ ran.branch = "direct"
    /\ ~ran.out.raised

\* the lines echoed during pass k of the chat loop, the farewell included
TurnEchoes(k) ==
    SubSeq(chat.echoes, chat.turns[k].first,
           IF k < Len(chat.turns) THEN chat.turns[k + 1].first - 1 ELSE Len(chat.echoes))

\* pass k of the chat loop was given the text exit or quit, in any case
TypedExit(k) ==
    /\ ~chat.turns[k].prompt.raised
    /\ lower(chat.turns[k].prompt.value) \in {<<"e", "x", "i", "t">>, <<"q", "u", "i", "t">>}

\* a KeyboardInterrupt reached pass k of the chat loop
Interrupted(k) ==
    \/ chat.turns[k].prompt.raised /\ chat.turns[k].prompt.exc = "KeyboardInterrupt"
    \/ /\ chat.turns[k].ran
       /\ chat.turns[k].out.raised
       /\ chat.turns[k].out.exc = "KeyboardInterrupt"

\* C26: the chat loop is left only in a pass given exit or quit, in any case, or
\* reached by a keyboard interrupt, and Goodbye! is then the last line echoed; such
\* a pass is the last one; a pass given blank text or clear does not run the agent;
\* a pass in which agent.run raised an error echoes 'Error: <message>' to the error
\* stream and the loop goes on to the next prompt.
C26_ChatLoopEndsOnlyOnExitOrInterrupt ==
    /\ chat.pc = "done" <=> (chat.turns # <<>> /\ chat.turns[Len(chat.turns)].left)
    /\ chat.pc = "done" =>
           chat.echoes[Len(chat.echoes)] = [text |-> <<"Goodbye!">>, err |-> FALSE]
    /\ \A k \in 1..Len(chat.turns) :
           /\ chat.turns[k].left <=> (TypedExit(k) \/ Interrupted(k))
           /\ chat.turns[k].left => k = Len(chat.turns)
           /\ (/\ ~chat.turns[k].prompt.raised
               /\ \/ strip(chat.turns[k].prompt.value) = <<>>
                  \/ lower(chat.turns[k].prompt.value) = <<"c", "l", "e", "a", "r">>)
              => ~chat.turns[k].ran
           /\ (chat.turns[k].ran /\ chat.turns[k].out.raised /\ ~Interrupted(k)) =>
                  /\ ~chat.turns[k].left
                  /\ \E i \in 1..Len(TurnEchoes(k)) :
                         TurnEchoes(k)[i] =
                             [text |-> <<"Error: ">> \o chat.turns[k].out.msg, err |-> TRUE]
                  /\ k = Len(chat.turns) => chat.pc = "prompt"

\* agent.run raised an error in the first pass, the loop prompted again and was
\* left on EXIT typed in capitals
C26_Witness ==
    /\ chat.pc = "done"
    /\ Len(chat.turns) = 2
    /\ chat.turns[1].ran
    /\ chat.turns[1].out.raised
    /\ chat.turns[1].out.exc = "ConnectionError"
    /\ ~chat.turns[2].prompt.raised
    /\ chat.turns[2].prompt.value = <<"E", "X", "I", "T">>
    /\ ~chat.turns[2].ran

\* C27: call_tool answers check_status with the fixed status text, raises
\* ValueError naming the tool for every name other than check_status and
\* solve_task, and for solve_task runs a freshly built agent on the path given, or
\* on '.' when none is given; that agent is in direct mode, so the run takes the
\* direct chat path: no request for tool calls is posted, no tool is executed and
\* the filesystem is left as it was.
C27_ServerNeverRunsFilesystemTools ==
    /\ \A i \in 1..Len(server.log) :
           CASE server.log[i].name = "check_status" ->
                    /\ server.log[i].out = Returned(<<"Granite Coder is ONLINE and Greedy.">>)
                    /\ server.log[i].branch = ""
             [] server.log[i].name = "solve_task" ->
                    /\ server.log[i].branch = "direct"
                    /\ server.log[i].path =
                           (IF server.log[i].arguments.m.path = JAbsent
                            THEN JStr(<<".">>) ELSE server.log[i].arguments.m.path)
                    /\ agent.mode = "direct"
                    /\ agent.model_name = "ibm/granite4"
             [] OTHER ->
                    /\ server.log[i].out =
                           Raised("ValueError", <<"Unknown tool: ", server.log[i].name>>)
                    /\ server.log[i].branch = ""
    /\ posts = 0
    /\ data = <<>>
    /\ calls = <<>>
    /\ fs = FsPopulated
    /\ ran.branch \in {"", "direct"}

\* the server answered check_status, ran solve_task without a path on '.', and
\* refused read_file
C27_Witness ==
    /\ Len(server.log) = 3
    /\ server.log[1].name = "check_status"
    /\ server.log[2].name = "solve_task"
    /\ server.log[2].arguments.m.path = JAbsent
    /\ server.log[2].path = JStr(<<".">>)
    /\ ~server.log[2].out.raised
    /\ server.log[3].name = "read_file"
    /\ server.log[3].out.raised

\* the vision step gives nothing for image i of the batch
TextFails(i) == ~invoices.available \/ invoices.image_paths[i].text.raised

\* the extraction step gives nothing for image i of the batch
DataFails(i) == ~invoices.available \/ invoices.image_paths[i].data.raised

\* C28: for every image handled, the vision step is invoked first and the
\* extraction step after it, and not at all when the vision step gave nothing; the
\* result is None exactly when a step gave nothing and is otherwise the complete
\* result built from both steps; no exception leaves process_single_invoice; and
\* the batch has one entry per image handled, in the order of the input, and
\* returns one entry for every image.
C28_SingleShortCircuitsBatchKeepsOrder ==
    /\ invoices.pc # "raised"
    /\ Len(invoices.results) <= Len(invoices.image_paths)
    /\ Len(invoices.steps) = Len(invoices.results)
    /\ \A i \in 1..Len(invoices.results) :
           /\ invoices.steps[i] = (IF TextFails(i) THEN <<"_image_to_text">>
                                   ELSE <<"_image_to_text", "_text_to_structured_data">>)
           /\ invoices.results[i] = <<>> <=> (TextFails(i) \/ DataFails(i))
           /\ invoices.results[i] # <<>> =>
                  invoices.results[i] =
                      <<[extracted_text |-> invoices.image_paths[i].text.value,
                         utility |-> invoices.image_paths[i].data.value.utility,
                         amount |-> invoices.image_paths[i].data.value.amount,
                         currency |-> invoices.image_paths[i].data.value.currency]>>
    /\ invoices.pc = "returned" =>
           /\ Len(invoices.results) = Len(invoices.image_paths)
           /\ invoices.out = Returned(invoices.results)

\* a batch of two was returned whose first image could not be read, so that the
\* extraction step was not invoked for it, and whose second image gave a result
C28_Witness ==
    /\ invoices.pc = "returned"
    /\ Len(invoices.image_paths) = 2
    /\ invoices.image_paths[1].text.raised
    /\ invoices.steps[1] = <<"_image_to_text">>
    /\ invoices.results[1] = <<>>
    /\ invoices.results[2] # <<>>

\* the files are handled once each in upload order, no temporary copy is left
\* when the loop turns to the next file or is done, and the results are those of
\* the files handled whose processing gave a result, in order
HandledInOrderAndCleaned ==
    /\ upload.handled = [k \in 1..Len(upload.handled) |-> k]
    /\ upload.pc \in {"save", "done"} => upload.temp = {}
    /\ upload.pc = "try" => upload.temp = {<<"temp/", upload.image_files[upload.i].name>>}
    /\ [k \in 1..Len(upload.results) |-> upload.results[k].file]
           = SelectSeq(upload.handled,
                       LAMBDA k : upload.image_files[k].process = "result")
    /\ \A k \in 1..Len(upload.results) :
           upload.results[k].file_name = upload.image_files[upload.results[k].file].name
    /\ Len(upload.results) <= Len(upload.image_files)
    /\ upload.pc = "done" => Len(upload.handled) = Len(upload.image_files)

\* C29: every uploaded file is handled exactly once, in upload order; the
\* temporary copy of a file is gone before the next file is handled, whatever
\* processing came to; a failure on one file does not keep the following files
\* from being handled; and the results are exactly those of the files processed
\* with a result, so never more than the files uploaded.
C29_EachUploadHandledOnceFailuresIsolated ==
    /\ HandledInOrderAndCleaned
    /\ upload.pc \notin {"save", "try"} => Len(upload.handled) = Len(upload.image_files)

====
